---- MODULE Spec2Model ----
(***************************************************************************)
(* A model of canvas-sync: the urgency classifier (utils.ts), the calendar *)
(* view (calendarRenderer.ts), the todo list with its completion           *)
(* transition (todoRenderer.ts), the paginated fetch (canvasApi.ts) and    *)
(* the synchronisation of assignments into notes (assignmentSync.ts).      *)
(*                                                                         *)
(* Time is counted in minutes since 1970-01-01T00:00Z; a JavaScript Date   *)
(* is the instant it holds.  A date string "YYYY-MM-DD..." is the record   *)
(* of its fields.                                                          *)
(***************************************************************************)
EXTENDS Integers, Sequences, FiniteSets, TLC

VARIABLES
    now,          \* the system clock: the instant new Date() returns
    zone,         \* the local time zone of the process
    uDue,         \* getUrgency: the argument `due`
    uResult,      \* getUrgency: the value returned ("pending" before the call)
    currentDate,  \* renderCalendar: the anchor, a Date
    currentView,  \* renderCalendar: the view mode
    rendered,     \* renderCalendar: what the content area shows
    itemsByDate,  \* renderCalendar: the items collected, by date key
    lastEvent,    \* renderCalendar: the handler that ran last, and whether it called refresh()
    ticks,        \* how often the clock advanced since construction
    vault,        \* the files of the vault, in the order getFiles() lists them
    folders,      \* the folders of the vault that exist
    items,        \* renderTodoList: the collected items
    currentSort,  \* renderTodoList: the sort mode
    dom,          \* renderTodoList: the nodes of the items area, in document order
    renderGen,    \* how often renderItems rebuilt the items area
    calls,        \* the invocations of completeItem
    notices,      \* how many "Moved to Done" notices were shown, per file
    settings,     \* the plugin settings syncAssignments is given
    server,       \* the pages the Canvas server answers with, per course
    fetch,        \* the invocations of fetchAssignments
    sync,         \* the invocations of syncAssignments
    notifySettings, \* the notification switches of the settings checkAndNotify is given
    sentKeys,     \* the set of keys the caller of checkAndNotify owns
    notified,     \* the keys of the notifications shown since sentKeys was last emptied
    notifyCall,   \* the last call of checkAndNotify or clearStaleKeys
    hashCall      \* hashSubject: the argument, whether it returned, and the value returned

calVars == <<currentDate, currentView, rendered, itemsByDate, lastEvent>>
urgVars == <<uDue, uResult>>
todoVars == <<vault, folders, items, currentSort, dom, renderGen, calls, notices>>
syncVars == <<settings, server, fetch, sync>>
notifVars == <<notifySettings, sentKeys, notified, notifyCall>>
vars == <<now, zone, ticks, uDue, uResult, currentDate, currentView, rendered, itemsByDate,
          lastEvent,
          vault, folders, items, currentSort, dom, renderGen, calls, notices,
          settings, server, fetch, sync,
          notifySettings, sentKeys, notified, notifyCall, hashCall>>

(***************************************************************************)
(* Bounds of the model.                                                    *)
(***************************************************************************)
\* due dates range over RefDay - MaxPast .. RefDay + MaxAhead
MaxPast == 2
MaxAhead == 9
\* the calendar is navigated at most this many days away from the clock's date
MaxNavDays == 45
\* the clock advances by at most this many half days while a view exists
MaxTicks == 2
\* completeItem is invoked at most this many times on one todo list
MaxCalls == 2
\* the sort buttons rebuild the items area at most this many times
MaxRenders == 1
\* the collector is given at most this many files
MaxFiles == 4
\* listings drawn together with a base path have at most this many files
MaxSubjectFiles == 2
\* between calls of checkAndNotify the clock advances by six hours, at most
\* this many times
MaxHours == 5
\* hashSubject is given subjects of at most this many UTF-16 code units
MaxSubjectLen == 5
\* the server has at most this many pages of assignments for a course
MaxPages == 3
\* fetchAssignments issues at most this many requests
MaxRequests == 4

(***************************************************************************)
(* ECMAScript Date arithmetic.                                             *)
(***************************************************************************)
\* 1000 * 60 * 60 * 24 milliseconds, in minutes
MS_PER_DAY == 1440

\* days from 1970-01-01 to the civil date y-m-d (m in 1..12)
DaysFromCivil(y, m, d) ==
    LET yy  == IF m <= 2 THEN y - 1 ELSE y
        era == yy \div 400
        yoe == yy - era * 400
        mp  == (m + 9) % 12
        doy == (153 * mp + 2) \div 5 + d - 1
        doe == yoe * 365 + yoe \div 4 - yoe \div 100 + doy
    IN  era * 146097 + doe - 719468

\* the civil date of day number z, as [y, m (1..12), d]
CivilOfDay(z) ==
    LET zz  == z + 719468
        era == zz \div 146097
        doe == zz - era * 146097
        yoe == (doe - doe \div 1460 + doe \div 36524 - doe \div 146096) \div 365
        doy == doe - (365 * yoe + yoe \div 4 - yoe \div 100)
        mp  == (5 * doy + 2) \div 153
        dd  == doy - (153 * mp + 2) \div 5 + 1
        mm  == IF mp < 10 THEN mp + 3 ELSE mp - 9
    IN  [y |-> yoe + era * 400 + (IF mm <= 2 THEN 1 ELSE 0), m |-> mm, d |-> dd]

\* the same, tabulated once for the years the model visits
CivilTable ==
    [z \in DaysFromCivil(2023, 1, 1) .. DaysFromCivil(2027, 12, 31) |-> CivilOfDay(z)]

CivilFromDays(z) == CivilTable[z]

\* The idiom  CHOOSE r \in {F(x) : x \in {v}} : TRUE  below is F(v) with v
\* evaluated once, as a const declaration of the code is.

\* MakeDay(year, month, date) of ECMAScript: month is 0-based and, like date,
\* may lie outside its range; the result is a day number
MakeDay(year, month, date) ==
    DaysFromCivil(year + month \div 12, (month % 12) + 1, 1) + date - 1

\* A zone is [std, dst, on, off]: the offset of standard time from UTC, and,
\* when dst holds, the days on which daylight saving time (one hour ahead)
\* starts and ends, both at 02:00 wall-clock time.
\* the offset of local time from UTC at local wall-clock minute w
OffsetAtLocal(w) ==
    IF zone.dst /\ zone.on * MS_PER_DAY + 120 <= w
                /\ w < zone.off * MS_PER_DAY + 120
    THEN zone.std + 60
    ELSE zone.std

\* the offset of local time from UTC at instant t
OffsetAt(t) ==
    IF zone.dst /\ zone.on * MS_PER_DAY + 120 - zone.std <= t
                /\ t < zone.off * MS_PER_DAY + 120 - (zone.std + 60)
    THEN zone.std + 60
    ELSE zone.std

\* the local day number of instant t
LocalDay(t) == (t + OffsetAt(t)) \div MS_PER_DAY

\* new Date(year, month, date): local midnight of the normalised date
NewDate(year, month, date) ==
    LET w == MakeDay(year, month, date) * MS_PER_DAY
    IN  w - OffsetAtLocal(w)

\* Date.prototype.getFullYear / getMonth (0-based) / getDate / getDay
getFullYear(t) == CivilFromDays(LocalDay(t)).y
getMonth(t) == CivilFromDays(LocalDay(t)).m - 1
getDate(t) == CivilFromDays(LocalDay(t)).d
getDay(t) == (LocalDay(t) + 4) % 7

\* Math.round(a / b) for b > 0 and even: the nearest integer, halves upwards
MathRoundTrunc(a, b) == a \div b
MathRound(a, b) == (a + b \div 2) \div b

(***************************************************************************)
(* Due values: the `due` field of a note's front matter.                   *)
(*   form "null"    - absent                                               *)
(*   form "date"    - "YYYY-MM-DD"            (parsed as UTC midnight)     *)
(*   form "utc"     - "YYYY-MM-DDTHH:MM:00Z"  (parsed as UTC)              *)
(*   form "local"   - "YYYY-MM-DDTHH:MM:00"   (parsed as local time)       *)
(*   form "invalid" - a string Date cannot parse                           *)
(***************************************************************************)
NullDue == [form |-> "null", y |-> 0, m |-> 0, d |-> 0, hh |-> 0, mi |-> 0]
InvalidDue == [form |-> "invalid", y |-> 0, m |-> 0, d |-> 0, hh |-> 0, mi |-> 0]
DateDue(n) ==
    LET c == CivilFromDays(n)
    IN  [form |-> "date", y |-> c.y, m |-> c.m, d |-> c.d, hh |-> 0, mi |-> 0]
TimedDue(form, n, hh, mi) ==
    LET c == CivilFromDays(n)
    IN  [form |-> form, y |-> c.y, m |-> c.m, d |-> c.d, hh |-> hh, mi |-> mi]

\* !due
IsFalsy(due) == due.form = "null"

\* new Date(due) for a string that parses; the instant it denotes
ParseDate(due) ==
    LET w == DaysFromCivil(due.y, due.m, due.d) * MS_PER_DAY + due.hh * 60 + due.mi
    IN  IF due.form = "local" THEN w - OffsetAtLocal(w) ELSE w

(***************************************************************************)
(* utils.ts: getUrgency                                                    *)
(***************************************************************************)
\* the branch of getUrgency taken for a whole-day difference
BucketOfDiffOffByOne(diffDays) ==
    IF diffDays < 0 THEN "overdue"
    ELSE IF diffDays = 0 THEN "today"
    ELSE IF diffDays = 1 THEN "tomorrow"
    ELSE IF diffDays < 7 THEN "week"
    ELSE "later"

BucketOfDiff(diffDays) ==
    IF diffDays < 0 THEN "overdue"
    ELSE IF diffDays = 0 THEN "today"
    ELSE IF diffDays = 1 THEN "tomorrow"
    ELSE IF diffDays <= 7 THEN "week"
    ELSE "later"

getUrgencyDiffDays(due) ==
    LET today       == NewDate(getFullYear(now), getMonth(now), getDate(now))
        dueDate     == ParseDate(due)
        dueDateOnly == NewDate(getFullYear(dueDate), getMonth(dueDate), getDate(dueDate))
        diffMs      == dueDateOnly - today
    IN  MathRound(diffMs, MS_PER_DAY)

getUrgency(due) ==
    IF IsFalsy(due) THEN "none"
    \* an unparseable string makes every date NaN; every comparison with NaN is false
    ELSE IF due.form = "invalid" THEN "later"
    ELSE BucketOfDiff(getUrgencyDiffDays(due))

(***************************************************************************)
(* The environment: clock and time zone.                                   *)
(***************************************************************************)
\* the date the tests fix as today: 2026-02-12
RefDay == DaysFromCivil(2026, 2, 12)

\* UTC; a zone west of UTC in which daylight saving time starts during the
\* modelled days; a zone east of UTC in which it ends during them
Zones ==
    { [std |-> 0, dst |-> FALSE, on |-> 0, off |-> 0],
      [std |-> -300, dst |-> TRUE, on |-> RefDay + 1, off |-> RefDay + 300],
      [std |-> 60, dst |-> TRUE, on |-> RefDay - 300, off |-> RefDay + 3] }

\* the clock at construction: early, midday and late on the reference day (UTC)
Clocks == { RefDay * MS_PER_DAY + mi : mi \in {0, 330, 720, 1439} }

\* the clock when a calendar view is created: the reference day, the last day
\* of a year and the leap day of 2024
CalClocks ==
    { RefDay * MS_PER_DAY + 600,
      DaysFromCivil(2025, 12, 31) * MS_PER_DAY + 1410,
      DaysFromCivil(2024, 2, 29) * MS_PER_DAY + 30 }

DueDays == (RefDay - MaxPast) .. (RefDay + MaxAhead)

DueValues ==
    {NullDue, InvalidDue}
    \cup { DateDue(n) : n \in DueDays }
    \cup { TimedDue(f, n, hm[1], hm[2]) :
             f \in {"utc", "local"}, n \in DueDays, hm \in {<<0, 30>>, <<23, 59>>} }

(***************************************************************************)
(* The vault.  A path is the sequence of its segments; a file is           *)
(* [path, basename, extension, due, content, variant]: `due` is what the   *)
(* metadata cache holds for it, `content` the lines of the note, `variant` *)
(* the index in NoteVariants of the content it had at first.               *)
(***************************************************************************)
\* the base path of the default settings, and the one the settings hold
DefaultBasePath == <<"2025-2026", "Spring">>
semesterBasePath == settings.semesterBasePath

TodoPath(subject, basename) == semesterBasePath \o <<subject, "Todo", basename>>

\* the front-matter value canvas-id: absent, or a string or a number that
\* String() turns into the digits of n
NoCanvasId == [type |-> "null", n |-> 0]
CanvasId(type, n) == [type |-> type, n |-> n]

File(path, basename, due, variant, content) ==
    [path |-> path, basename |-> basename, extension |-> "md", due |-> due,
     canvasId |-> NoCanvasId, content |-> content, variant |-> variant]

\* String.prototype.startsWith / contains("/Todo/") on a path
StartsWithBase(path) ==
    /\ Len(path) >= Len(semesterBasePath)
    /\ SubSeq(path, 1, Len(semesterBasePath)) = semesterBasePath

\* the positions of the segments "/Todo/" matches: enclosed by separators
TodoPositions(path) == {i \in 2..(Len(path) - 1) : path[i] = "Todo"}

ContainsTodo(path) == TodoPositions(path) # {}

\* pathParts.indexOf("Todo"), 0-based, -1 if absent
IndexOfTodo(path) ==
    IF \E i \in 1..Len(path) : path[i] = "Todo"
    THEN (CHOOSE i \in 1..Len(path) :
              path[i] = "Todo" /\ \A j \in 1..(i - 1) : path[j] # "Todo") - 1
    ELSE -1

\* file.path.replace("/Todo/", "/Done/"): the first occurrence only
NewPath(path) ==
    IF ContainsTodo(path)
    THEN LET i == CHOOSE i \in TodoPositions(path) : \A j \in TodoPositions(path) : i <= j
         IN  [path EXCEPT ![i] = "Done"]
    ELSE path

\* newPath.substring(0, newPath.lastIndexOf("/"))
ParentFolder(path) == SubSeq(path, 1, Len(path) - 1)

(***************************************************************************)
(* The lines of a note, and what the regular expressions of completeItem   *)
(* see in them.                                                            *)
(***************************************************************************)
\* /\w/ matches the first character
StartsWithWordChar(line) ==
    line \in {"tags:", "tags: ", "status: Todo", "status:Todo", "status: Done",
              "due: 2026-02-15", "canvas-id: \"42\"", "Do the thing.", "Status/Todo"}

\* "---" starts the line
StartsWithDashes(line) == line = "---"

\* /^tags:\s*$/: the line a match of /^(tags:\s*\n)/m starts on
IsTagsHeader(line) == line \in {"tags:", "tags: "}

\* the line is empty or white space
IsBlank(line) == line \in {"", "  "}

\* l.trim().match(/^-?\s*Status\/Todo$/)
IsStatusTodoTagUntrimmed(line) == line \in {"- Status/Todo", "Status/Todo"}
IsStatusTodoTag(line) ==
    line \in {"  - Status/Todo", "\t- Status/Todo", "- Status/Todo", "Status/Todo"}

\* /^status:\s*Todo$/
IsStatusTodoField(line) == line \in {"status: Todo", "status:Todo"}

\* the lookahead (?=\n\w|\n---) holds at the end of line e
LookaheadAfter(lines, e) ==
    /\ e + 1 <= Len(lines)
    /\ StartsWithWordChar(lines[e + 1]) \/ StartsWithDashes(lines[e + 1])

\* the whole-line blanks "tags:\s*" can run over after line i
BlankRun(lines, i) ==
    CHOOSE b \in 0..(Len(lines) - i) :
        /\ \A k \in 1..b : IsBlank(lines[i + k])
        /\ i + b + 1 <= Len(lines) => ~IsBlank(lines[i + b + 1])

\* the matches of /^(tags:\s*\n)([\s\S]*?)(?=\n\w|\n---)/m that start on line
\* i, as <<k, e>>: the prefix takes lines i..i+k, the tag block lines i+k+1..e
TagMatchesAt(lines, i) ==
    IF ~IsTagsHeader(lines[i]) THEN {}
    ELSE { m \in (0..BlankRun(lines, i)) \X (1..Len(lines)) :
             /\ m[2] >= i + m[1] + 1
             /\ LookaheadAfter(lines, m[2])
             /\ \A e \in (i + m[1] + 1)..(m[2] - 1) : ~LookaheadAfter(lines, e) }

\* content.replace(/^(tags:...)/m, ...): the first line with a match; \s* is
\* greedy, [\s\S]*? is lazy; the block's lines are filtered and joined again
ReplaceTagBlock(lines) ==
    LET starts == {i \in 1..Len(lines) : TagMatchesAt(lines, i) # {}}
    IN  IF starts = {} THEN lines
        ELSE LET i == CHOOSE i \in starts : \A j \in starts : i <= j
                 ms == TagMatchesAt(lines, i)
                 m  == CHOOSE m \in ms : \A n \in ms : n[1] <= m[1]
                 s  == i + m[1] + 1
                 e  == m[2]
                 filtered == SelectSeq(SubSeq(lines, s, e), LAMBDA l : ~IsStatusTodoTag(l))
             IN  SubSeq(lines, 1, s - 1)
                    \o (IF filtered = <<>> THEN <<"">> ELSE filtered)
                    \o SubSeq(lines, e + 1, Len(lines))

\* content.replace(/^status:\s*Todo$/m, "status: Done"): the first match only
ReplaceStatus(lines) ==
    LET hits == {i \in 1..Len(lines) : IsStatusTodoField(lines[i])}
    IN  IF hits = {} THEN lines
        ELSE [lines EXCEPT ![CHOOSE i \in hits : \A j \in hits : i <= j] = "status: Done"]

\* the content completeItem writes for the content it read
CompletedContent(lines) == ReplaceStatus(ReplaceTagBlock(lines))

(***************************************************************************)
(* Array.prototype.sort (stable) with the comparators of todoRenderer.ts. *)
(***************************************************************************)
\* the strings of the model in the order localeCompare gives them
Collation == <<"Essay", "History", "Homework", "Math", "Quiz", "Reading", "Sketch">>

Rank(str) == CHOOSE i \in 1..Len(Collation) : Collation[i] = str

Sign(n) == IF n < 0 THEN -1 ELSE IF n > 0 THEN 1 ELSE 0

\* a.due.localeCompare(b.due) for date strings: field by field, a string
\* that is a prefix of another first
DueLocaleCompare(a, b) ==
    LET FormRank(f) == CASE f = "date" -> 0 [] f = "local" -> 1 [] f = "utc" -> 2
                         [] OTHER -> 3
        ka == <<a.y, a.m, a.d, Sign(FormRank(a.form)), a.hh, a.mi, FormRank(a.form)>>
        kb == <<b.y, b.m, b.d, Sign(FormRank(b.form)), b.hh, b.mi, FormRank(b.form)>>
        diff == {i \in 1..7 : ka[i] # kb[i]}
    IN  IF diff = {} THEN 0
        ELSE LET i == CHOOSE i \in diff : \A j \in diff : i <= j
             IN  Sign(ka[i] - kb[i])

\* the comparator of collectItems
CompareDueNullsFirst(a, b) ==
    IF IsFalsy(a.due) /\ IsFalsy(b.due) THEN 0
    ELSE IF IsFalsy(a.due) THEN -1
    ELSE IF IsFalsy(b.due) THEN 1
    ELSE DueLocaleCompare(a.due, b.due)

CompareDue(a, b) ==
    IF IsFalsy(a.due) /\ IsFalsy(b.due) THEN 0
    ELSE IF IsFalsy(a.due) THEN 1
    ELSE IF IsFalsy(b.due) THEN -1
    ELSE DueLocaleCompare(a.due, b.due)

Compare(by, a, b) ==
    IF by = "due" THEN CompareDue(a, b)
    ELSE Sign(Rank(a.name) - Rank(b.name))

\* x put behind the last element of the sorted sequence that is not greater
InsertSorted(sorted, x, by) ==
    LET keep == {i \in 0..Len(sorted) : i = 0 \/ Compare(by, sorted[i], x) <= 0}
        k    == CHOOSE i \in keep : \A j \in keep : j <= i
    IN  SubSeq(sorted, 1, k) \o <<x>> \o SubSeq(sorted, k + 1, Len(sorted))

RECURSIVE SortedPrefix(_, _, _)
SortedPrefix(seq, n, by) ==
    IF n = 0 THEN <<>>
    ELSE InsertSorted(SortedPrefix(seq, n - 1, by), seq[n], by)

ArraySort(seq, by) == SortedPrefix(seq, Len(seq), by)

(***************************************************************************)
(* todoRenderer.ts: collectItems and renderItems                           *)
(***************************************************************************)
SECTION_ORDER_NoneFirst == <<"none", "overdue", "today", "tomorrow", "week", "later">>
SECTION_ORDER == <<"overdue", "today", "tomorrow", "week", "later", "none">>

SECTION_LABELS ==
    [overdue |-> "Overdue", today |-> "Due Today", tomorrow |-> "Due Tomorrow",
     week |-> "This Week", later |-> "Later", none |-> "No Due Date"]

SortModes == {"date", "subject", "name"}

\* an item is [file, name, due, subject, urgency]; file is the index of the
\* TFile in the vault
collectItems(files) ==
    LET todoFiles == SelectSeq([i \in 1..Len(files) |-> i],
                        LAMBDA i : /\ StartsWithBase(files[i].path)
                                   /\ ContainsTodo(files[i].path)
                                   /\ files[i].extension = "md")
        Item(i) ==
            LET todoIdx == IndexOfTodo(files[i].path)
            IN  [file    |-> i,
                 name    |-> files[i].basename,
                 due     |-> files[i].due,
                 subject |-> IF todoIdx > 0 THEN files[i].path[todoIdx] ELSE "Unknown",
                 urgency |-> getUrgency(files[i].due)]
    IN  ArraySort([k \in 1..Len(todoFiles) |-> Item(todoFiles[k])], "due")

\* the nodes renderItems and renderItem create
HeaderNode(text) == [kind |-> "header", text |-> text, file |-> 0, gen |-> 0]
RowNode(item, gen) == [kind |-> "row", text |-> item.name, file |-> item.file, gen |-> gen]
EmptyNode == [kind |-> "empty", text |-> "No pending assignments", file |-> 0, gen |-> 0]

RECURSIVE Flatten(_)
Flatten(seqs) == IF seqs = <<>> THEN <<>> ELSE Head(seqs) \o Flatten(Tail(seqs))

Rows(its, gen) == [k \in 1..Len(its) |-> RowNode(its[k], gen)]

renderItems(its, sortMode, gen) ==
    IF Len(its) = 0 THEN <<EmptyNode>>
    ELSE IF sortMode = "date" THEN
        Flatten([k \in 1..Len(SECTION_ORDER) |->
            LET sectionItems == SelectSeq(its, LAMBDA it : it.urgency = SECTION_ORDER[k])
            IN  IF sectionItems = <<>> THEN <<>>
                ELSE <<HeaderNode(SECTION_LABELS[SECTION_ORDER[k]])>> \o Rows(sectionItems, gen)])
    ELSE IF sortMode = "subject" THEN
        LET present  == {its[k].subject : k \in 1..Len(its)}
            subjects == SelectSeq(Collation, LAMBDA str : str \in present)
        IN  Flatten([k \in 1..Len(subjects) |->
                <<HeaderNode(subjects[k])>>
                    \o Rows(SelectSeq(its, LAMBDA it : it.subject = subjects[k]), gen)])
    ELSE Rows(ArraySort(its, "name"), gen)

(***************************************************************************)
(* notificationService.ts: checkAndNotify and clearStaleKeys               *)
(***************************************************************************)
\* Date.prototype.getHours
getHours(t) == ((t + OffsetAt(t)) % MS_PER_DAY) \div 60

NoNotifyCall ==
    [op |-> "none", at |-> 0, before |-> {}, todayStr |-> 0, lastDate |-> 0,
     returned |-> FALSE]

\* neither function has been called, the set is empty
NotifyIdle ==
    /\ notifySettings = [notificationsEnabled |-> FALSE, notifyEveningBefore |-> FALSE,
                         notifyMorningOf |-> FALSE]
    /\ sentKeys = {}
    /\ notified = <<>>
    /\ notifyCall = NoNotifyCall

\* `${file.path}:eve` and `${file.path}:morning`
NotifyKey(path, kind) == <<path, kind>>

\* sentKeys.has(key)
HasNever(keys, key) == FALSE
Has(keys, key) == key \in keys

\* the two if statements of the loop body for file i, in their order: the
\* kinds of notification the file is due for at this hour
KindsDue(files, i) ==
    LET urgency     == getUrgency(files[i].due)
        currentHour == getHours(now)
        eve     == IF urgency = "tomorrow" /\ notifySettings.notifyEveningBefore
                      /\ currentHour >= 18
                   THEN <<"eve">> ELSE <<>>
        morning == IF urgency = "today" /\ notifySettings.notifyMorningOf
                      /\ currentHour >= 8
                   THEN <<"morning">> ELSE <<>>
    IN  eve \o morning

\* one if statement of the loop body: a notification for the key unless the
\* set has it; st is [keys, out]: the set and the keys of the
\* notifications constructed so far
NotifyOnce(st, key) ==
    IF Has(st.keys, key) THEN st
    ELSE [keys |-> st.keys \cup {key}, out |-> Append(st.out, key)]

\* the loop over todoFiles from file i on
RECURSIVE NotifyLoop(_, _, _)
NotifyLoop(files, i, st) ==
    IF i > Len(files) THEN st
    ELSE IF ~ ( /\ StartsWithBase(files[i].path)
                /\ ContainsTodo(files[i].path)
                /\ files[i].extension = "md" )
         THEN NotifyLoop(files, i + 1, st)
    ELSE IF IsFalsy(files[i].due) THEN NotifyLoop(files, i + 1, st)
    ELSE IF Len(KindsDue(files, i)) = 0 THEN NotifyLoop(files, i + 1, st)
    ELSE IF Len(KindsDue(files, i)) = 1
         THEN NotifyLoop(files, i + 1,
                         NotifyOnce(st, NotifyKey(files[i].path, KindsDue(files, i)[1])))
    ELSE NotifyLoop(files, i + 1,
                    NotifyOnce(NotifyOnce(st, NotifyKey(files[i].path, "eve")),
                               NotifyKey(files[i].path, "morning")))

checkAndNotify(files, keys) ==
    IF ~notifySettings.notificationsEnabled THEN [keys |-> keys, out |-> <<>>]
    ELSE NotifyLoop(files, 1, [keys |-> keys, out |-> <<>>])

\* lastDate !== todayStr
StaleNever(todayStr, lastDate) == FALSE
Stale(todayStr, lastDate) == lastDate # todayStr

\* clearStaleKeys: the set afterwards and the value returned
clearStaleKeys(keys, todayStr, lastDate) ==
    IF Stale(todayStr, lastDate) THEN [keys |-> {}, returned |-> TRUE]
    ELSE [keys |-> keys, returned |-> FALSE]

NotifyFrame ==
    UNCHANGED <<zone, urgVars, calVars, todoVars, syncVars, notifySettings, hashCall>>

CallCheckAndNotify ==
    LET r == checkAndNotify(vault, sentKeys)
    IN  /\ sentKeys' = r.keys
        /\ notified' = notified \o r.out
        /\ notifyCall' = [NoNotifyCall EXCEPT !.op = "checkAndNotify", !.at = now,
                                              !.before = sentKeys]
        /\ UNCHANGED <<now, ticks>>
        /\ NotifyFrame

\* the date strings a caller passes: the days around the reference day
DateStrs == {RefDay, RefDay + 1}

CallClearStaleKeys(todayStr, lastDate) ==
    LET r == clearStaleKeys(sentKeys, todayStr, lastDate)
    IN  /\ sentKeys' = r.keys
        /\ notified' = IF r.keys = {} THEN <<>> ELSE notified
        /\ notifyCall' = [op |-> "clearStaleKeys", at |-> now, before |-> sentKeys,
                          todayStr |-> todayStr, lastDate |-> lastDate,
                          returned |-> r.returned]
        /\ UNCHANGED <<now, ticks>>
        /\ NotifyFrame

\* six hours pass
HoursPass ==
    /\ ticks < MaxHours
    /\ now' = now + 360
    /\ ticks' = ticks + 1
    /\ UNCHANGED <<sentKeys, notified, notifyCall>>
    /\ NotifyFrame

(***************************************************************************)
(* todoRenderer.ts: renderTodoList, the sort buttons and completeItem      *)
(***************************************************************************)
Slots == 1..MaxCalls

IdleCall ==
    [pc |-> "idle", file |-> 0, rowGen |-> 0, content |-> <<>>, newPath |-> <<>>,
     log |-> <<>>, error |-> "none", overlapped |-> FALSE, caught |-> FALSE]

\* renderTodoList has not run
NotRendered ==
    /\ items = <<>>
    /\ currentSort = "none"
    /\ dom = <<>>
    /\ renderGen = 0
    /\ calls = [c \in Slots |-> IdleCall]
    /\ notices = <<>>

\* no todo list exists
TodoIdle ==
    /\ vault = <<>>
    /\ folders = {}
    /\ items = <<>>
    /\ currentSort = "none"
    /\ dom = <<>>
    /\ renderGen = 0
    /\ calls = [c \in Slots |-> IdleCall]
    /\ notices = <<>>

\* renderTodoList: the items are collected once and rendered in date mode
RenderTodoList ==
    /\ currentSort = "none"
    /\ vault # <<>>
    /\ items' = collectItems(vault)
    /\ currentSort' = "date"
    /\ dom' = renderItems(items', "date", 0)
    /\ notices' = [f \in 1..Len(vault) |-> 0]
    /\ UNCHANGED <<vault, folders, renderGen, calls>>

\* a sort button is clicked
ClickSort(mode) ==
    /\ currentSort \in SortModes
    /\ currentSort # mode
    /\ renderGen < MaxRenders
    /\ currentSort' = mode
    /\ renderGen' = renderGen + 1
    /\ dom' = renderItems(items, mode, renderGen')
    /\ UNCHANGED <<vault, folders, items, calls, notices>>

\* the call waits for an I/O step to return
InFlight(c) == calls[c].pc \in {"read", "modify", "createFolder", "renameFile"}

\* a checkbox is clicked: completeItem starts and waits for vault.read
\* (overlapped records whether another call was waiting at that moment)
ClickCheckbox(c, n) ==
    /\ calls[c].pc = "idle"
    /\ \A b \in Slots : b < c => calls[b].pc # "idle"
    /\ n \in 1..Len(dom)
    /\ dom[n].kind = "row"
    /\ calls' = [calls EXCEPT ![c] =
                    [IdleCall EXCEPT !.pc = "read", !.file = dom[n].file,
                                     !.rowGen = dom[n].gen, !.log = <<"read">>,
                                     !.overlapped = \E b \in Slots : InFlight(b)]]
    /\ UNCHANGED <<vault, folders, items, currentSort, dom, renderGen, notices>>

Rejected(call, op) == [call EXCEPT !.pc = "failed", !.error = op]

\* the content a call passes to vault.modify
ContentToWriteShared(c) ==
    IF \E b \in Slots : b # c /\ calls[b].content # <<>>
    THEN calls[CHOOSE b \in Slots : b # c /\ calls[b].content # <<>>].content
    ELSE calls[c].content
ContentToWrite(c) == calls[c].content

\* vault.read returns: the content is rewritten and vault.modify is called
ReadReturns(c, ok) ==
    /\ calls[c].pc = "read"
    /\ calls' = [calls EXCEPT ![c] =
          IF ok
          THEN [@ EXCEPT !.pc = "modify",
                         !.content = CompletedContent(vault[calls[c].file].content),
                         !.log = Append(@, "modify")]
          ELSE Rejected(@, "read")]
    /\ UNCHANGED <<vault, folders, items, currentSort, dom, renderGen, notices>>

\* vault.modify returns: the new path is computed and createFolder is called
ModifyReturns(c, ok) ==
    /\ calls[c].pc = "modify"
    /\ IF ok
       THEN /\ vault' = [vault EXCEPT ![calls[c].file].content = ContentToWrite(c)]
            /\ calls' = [calls EXCEPT ![c] =
                  [@ EXCEPT !.pc = "createFolder",
                            !.newPath = NewPath(vault[calls[c].file].path),
                            !.log = Append(@, "createFolder")]]
       ELSE /\ calls' = [calls EXCEPT ![c] = Rejected(@, "modify")]
            /\ UNCHANGED vault
    /\ UNCHANGED <<folders, items, currentSort, dom, renderGen, notices>>

\* a failure of createFolder is caught by the empty catch block
CreateFolderFailureLeaves == FALSE
CreateFolderFailureCaught == TRUE

\* vault.createFolder returns; a failure is caught; renameFile is called
CreateFolderReturns(c, ok) ==
    /\ calls[c].pc = "createFolder"
    /\ ok => ParentFolder(calls[c].newPath) \notin folders
    /\ folders' = IF ok THEN folders \cup {ParentFolder(calls[c].newPath)} ELSE folders
    /\ calls' = [calls EXCEPT ![c] =
          IF ok \/ CreateFolderFailureCaught
          THEN [@ EXCEPT !.pc = "renameFile", !.caught = ~ok,
                         !.log = Append(@, "renameFile")]
          ELSE Rejected(@, "createFolder")]
    /\ UNCHANGED <<vault, items, currentSort, dom, renderGen, notices>>

\* a failure of renameFile leaves completeItem
RenameFailureSwallowed == FALSE
RenameFailurePropagates == TRUE

\* what follows renameFile in completeItem: the notice and rowEl.remove()
AfterRename(c) ==
    /\ notices' = [notices EXCEPT ![calls[c].file] = @ + 1]
    /\ dom' = SelectSeq(dom, LAMBDA node :
                  ~(node.kind = "row" /\ node.file = calls[c].file
                                      /\ node.gen = calls[c].rowGen))
    /\ calls' = [calls EXCEPT ![c].pc = "done"]

\* fileManager.renameFile returns
RenameReturns(c, ok) ==
    /\ calls[c].pc = "renameFile"
    /\ ok => \A f \in 1..Len(vault) : vault[f].path # calls[c].newPath
    /\ IF ok
       THEN /\ vault' = [vault EXCEPT ![calls[c].file].path = calls[c].newPath]
            /\ AfterRename(c)
       ELSE /\ UNCHANGED vault
            /\ IF RenameFailurePropagates
               THEN /\ calls' = [calls EXCEPT ![c] = Rejected(@, "renameFile")]
                    /\ UNCHANGED <<dom, notices>>
               ELSE AfterRename(c)
    /\ UNCHANGED <<folders, items, currentSort, renderGen>>

(***************************************************************************)
(* canvasApi.ts: the Canvas server and fetchAssignments.  A URL is         *)
(* [course, page]; a response is [status, items, headers], status 0        *)
(* standing for a request that is rejected (network error); a Link header  *)
(* value is the sequence of its parts [rel, url].                          *)
(***************************************************************************)
Courses == {"101", "102"}
Runs == {1, 2}

Url(courseId, page) == [course |-> courseId, page |-> page]
NullUrl == Url("", 0)

Assignment(id, name, due, published) ==
    [id |-> id, name |-> name, due_at |-> due, published |-> published]

Part(rel, url) == [rel |-> rel, url |-> url]
Headers(lower, upper) == [link |-> lower, Link |-> upper]
Page(status, its, headers) == [status |-> status, items |-> its, headers |-> headers]

\* the first URL fetchAssignments requests
FirstUrl(courseId) == Url(courseId, 1)

\* what requestUrl gets for a URL: the page, or 404 for a page that is not there
Response(url) ==
    IF url.course \in Courses /\ url.page \in 1..Len(server[url.course])
    THEN server[url.course][url.page]
    ELSE Page(404, <<>>, Headers(<<>>, <<>>))

\* parseLinkHeader, looked up at rel (NullUrl: no such entry); a later part
\* overwrites an earlier one of the same rel
parseLinkHeader(linkHeader, rel) ==
    LET hits == {k \in 1..Len(linkHeader) : linkHeader[k].rel = rel}
    IN  IF hits = {} THEN NullUrl
        ELSE linkHeader[CHOOSE k \in hits : \A j \in hits : j <= k].url

\* the URL of the next request after a response (NullUrl: the loop ends)
NextUrlIgnoringLinks(response) == NullUrl
NextUrl(response) ==
    LET linkHeader == IF response.headers.link # <<>>
                      THEN response.headers.link ELSE response.headers.Link
    IN  IF linkHeader # <<>> THEN parseLinkHeader(linkHeader, "next") ELSE NullUrl

IdleFetch ==
    [pc |-> "idle", courseId |-> "", url |-> NullUrl, allAssignments |-> <<>>,
     requests |-> <<>>, error |-> "none"]

\* fetchAssignments is called and issues its first request
FetchStarted(courseId) ==
    [IdleFetch EXCEPT !.pc = "waiting", !.courseId = courseId,
                      !.url = FirstUrl(courseId), !.requests = <<FirstUrl(courseId)>>]

\* response.status !== 200
StatusNeverFails(response) == FALSE
StatusFails(response) == response.status # 200

\* the state of a call after the response to its request has arrived
FetchAfterResponse(f) ==
    LET response == Response(f.url)
    IN  IF response.status = 0 THEN [f EXCEPT !.pc = "thrown", !.error = "network"]
        ELSE IF StatusFails(response) THEN [f EXCEPT !.pc = "thrown", !.error = "status"]
        ELSE LET all == f.allAssignments \o response.items
                 url == NextUrl(response)
             IN  IF url # NullUrl
                 THEN [f EXCEPT !.allAssignments = all, !.url = url,
                                !.requests = Append(@, url)]
                 ELSE [f EXCEPT !.allAssignments = all, !.url = NullUrl,
                                !.pc = "returned"]

\* fetchAssignments is called on its own
CallFetchAssignments(r, courseId) ==
    /\ fetch[r].pc = "idle"
    /\ fetch' = [fetch EXCEPT ![r] = FetchStarted(courseId)]
    /\ UNCHANGED <<settings, server, sync>>

\* requestUrl settles: the loop body of fetchAssignments runs up to the next
\* request or to the end of the call
FetchResponds(r) ==
    /\ fetch[r].pc = "waiting"
    /\ Len(FetchAfterResponse(fetch[r]).requests) <= MaxRequests
    /\ fetch' = [fetch EXCEPT ![r] = FetchAfterResponse(fetch[r])]
    /\ UNCHANGED <<settings, server, sync>>

(***************************************************************************)
(* assignmentSync.ts: syncAssignments.  A run is suspended while it waits  *)
(* for requestUrl ("fetching"), vault.createFolder ("ensureFolder") or     *)
(* vault.create ("creating").  A run also records what it did: the ids of  *)
(* the assignments it created a note for, the courses it called            *)
(* fetchAssignments for and the errors it caught.                          *)
(***************************************************************************)
Mapping(courseId, subject) ==
    [courseId |-> courseId,
     mapping |-> [canvasCourseName |-> courseId, subject |-> subject, subjectTag |-> subject]]

Notified(kind, subject, count) == [kind |-> kind, subject |-> subject, count |-> count]

IdleSync ==
    [pc |-> "idle", activeMappings |-> <<>>, idx |-> 0, published |-> <<>>,
     existingIds |-> {}, k |-> 0, filePath |-> <<>>, totalCreated |-> 0,
     notices |-> <<>>, created |-> <<>>, fetched |-> <<>>, errors |-> <<>>]

\* String(x) of a canvas-id or an assignment id: its digits
String(n) == ToString(n)

\* app.vault.getAbstractFileByPath(path) in a vault with the files fs and the
\* folders ds: a folder or a file is there
AbstractFileIn(fs, ds, path) ==
    \/ path \in ds
    \/ \E f \in 1..Len(fs) : fs[f].path = path

getAbstractFileByPath(path) == AbstractFileIn(vault, folders, path)

IsPrefix(p, q) == Len(p) <= Len(q) /\ SubSeq(q, 1, Len(p)) = p

\* findExistingCanvasIds
findExistingCanvasIds(basePath, subfolders) ==
    UNION { IF ~getAbstractFileByPath(basePath \o <<sub>>) THEN {}
            ELSE { String(vault[f].canvasId.n) :
                     f \in {g \in 1..Len(vault) :
                               /\ IsPrefix(basePath \o <<sub>>, vault[g].path)
                               /\ Len(vault[g].path) > Len(basePath) + 1
                               /\ vault[g].extension = "md"
                               /\ vault[g].canvasId.type # "null"} }
          : sub \in subfolders }

\* sanitizeFilename: the characters / \ : * ? " < > | are dropped
sanitizeFilename(name) ==
    CASE name = "Essay?" -> "Essay"
      [] name = "Quiz: 1" -> "Quiz 1"
      [] OTHER -> name

todoFolderOf(mapping) == semesterBasePath \o <<mapping.subject, "Todo">>

\* createAssignmentNote: the path of the note, chosen after ensureFolder
filePathOf(fs, ds, assignment, mapping) ==
    LET baseName == sanitizeFilename(assignment.name)
    IN  IF AbstractFileIn(fs, ds, todoFolderOf(mapping) \o <<baseName>>)
        THEN todoFolderOf(mapping) \o <<baseName \o " (" \o String(assignment.id) \o ")">>
        ELSE todoFolderOf(mapping) \o <<baseName>>

\* no sync and no fetch is going on
NoSync ==
    /\ server = [c \in Courses |-> <<>>]
    /\ fetch = [r \in Runs |-> IdleFetch]
    /\ sync = [r \in Runs |-> IdleSync]

\* the settings are the default settings
SyncIdle ==
    /\ settings = [canvasBaseUrl |-> "", apiToken |-> "", courseMappings |-> <<>>,
                   semesterBasePath |-> DefaultBasePath]
    /\ NoSync

(***************************************************************************)
(* calendarRenderer.ts: subject colours.  A subject is the sequence of its *)
(* UTF-16 code units.  A 32-bit word is [hi, lo], its two 16-bit halves,   *)
(* so that every intermediate value stays below 2^31.                      *)
(***************************************************************************)
PaletteLength == 10

Word(hi, lo) == [hi |-> hi % 65536, lo |-> lo % 65536]

\* the signed value of a word: an Int32
SignedOf(w) == IF w.hi >= 32768 THEN (w.hi - 65536) * 65536 + w.lo ELSE w.hi * 65536 + w.lo

\* h << 5
ShiftLeft5(h) == Word(h.hi * 32 + (h.lo * 32) \div 65536, h.lo * 32)

\* ((h << 5) - h + code) | 0: the difference and the sum are exact, | 0
\* reduces them modulo 2^32
HashStep(h, code) ==
    LET x  == ShiftLeft5(h)
        lo == x.lo - h.lo + code
    IN  Word(x.hi - h.hi + lo \div 65536, lo)

\* the loop of hashSubject: h after the code units from i on
RECURSIVE HashLoop(_, _, _)
HashLoop(subject, i, h) ==
    IF i > Len(subject) THEN h
    ELSE HashLoop(subject, i + 1, HashStep(h, subject[i]))

\* Math.abs(h) % n for a 32-bit h and n = 10: Math.abs works on doubles, so
\* the magnitude of -2^31 is 2^31; 65536 % 10 = 6
AbsWrappedMod(h) ==
    IF h.hi = 32768 /\ h.lo = 0 THEN -8
    ELSE IF h.hi >= 32768 THEN (-SignedOf(h)) % PaletteLength
    ELSE SignedOf(h) % PaletteLength
AbsMod(h) ==
    IF h.hi >= 32768
    THEN (((65536 - h.hi) % PaletteLength) * 6 - h.lo) % PaletteLength
    ELSE SignedOf(h) % PaletteLength

hashSubject(subject) == AbsMod(HashLoop(subject, 1, Word(0, 0)))

NoHashCall == [subject |-> <<>>, called |-> FALSE, index |-> 0]

\* hashSubject has not been called
HashIdle == hashCall = NoHashCall

CallHashSubject ==
    /\ ~hashCall.called
    /\ hashCall' = [hashCall EXCEPT !.called = TRUE, !.index = hashSubject(hashCall.subject)]
    /\ UNCHANGED <<now, zone, ticks, urgVars, notifVars, calVars, todoVars, syncVars>>

(***************************************************************************)
(* calendarRenderer.ts: date utilities                                     *)
(***************************************************************************)
getDaysInMonthOffByOne(year, month) == getDate(NewDate(year, month, 0))
getDaysInMonth(year, month) == getDate(NewDate(year, month + 1, 0))

getFirstDayOfWeek(year, month) == getDay(NewDate(year, month, 1))

\* the key "YYYY-MM-DD", as the triple of its fields
buildDateKey(year, month, day) == <<year, month + 1, day>>

dateKeyFromDate(date) == buildDateKey(getFullYear(date), getMonth(date), getDate(date))

\* Date.prototype.setDate: the date of the month is replaced, the local time
\* of day is kept
SetDate(t, date) ==
    LET local == t + OffsetAt(t)
        w     == MakeDay(getFullYear(t), getMonth(t), date) * MS_PER_DAY
                     + (local % MS_PER_DAY)
    IN  w - OffsetAtLocal(w)

getMondayOfWeek(date) ==
    LET d == NewDate(getFullYear(date), getMonth(date), getDate(date))
    IN  SetDate(d, getDate(d) - getDay(d) + 1)
getSundayOfWeek(date) ==
    LET d == NewDate(getFullYear(date), getMonth(date), getDate(date))
    IN  SetDate(d, getDate(d) - getDay(d))

(***************************************************************************)
(* calendarRenderer.ts: data collection                                    *)
(***************************************************************************)
\* String(due).slice(0, 10), as the triple of the fields of "YYYY-MM-DD"; the
\* first ten characters of a string that is no date are no key of a cell
DateKeyOfDue(due) == IF due.form = "invalid" THEN <<0, 0, 0>> ELSE <<due.y, due.m, due.d>>

\* the Map without entries
NoIndex == [key \in {} |-> <<>>]

\* collectItems of the calendar: the Map from date key to the items of that
\* date, each list in the order of the files
collectCalendarItems(files) ==
    LET todoFiles == SelectSeq([i \in 1..Len(files) |-> i],
                        LAMBDA i : /\ StartsWithBase(files[i].path)
                                   /\ ContainsTodo(files[i].path)
                                   /\ files[i].extension = "md"
                                   /\ ~IsFalsy(files[i].due))
        Item(i) ==
            LET todoIdx == IndexOfTodo(files[i].path)
            IN  [file    |-> i,
                 name    |-> files[i].basename,
                 due     |-> DateKeyOfDue(files[i].due),
                 subject |-> IF todoIdx > 0 THEN files[i].path[todoIdx] ELSE "Unknown"]
        all  == [k \in 1..Len(todoFiles) |-> Item(todoFiles[k])]
        keys == {all[k].due : k \in 1..Len(all)}
    IN  [key \in keys |-> SelectSeq(all, LAMBDA it : it.due = key)]

\* itemsByDate.get(dateKey) || []
ItemsOn(dateKey) ==
    IF dateKey \in DOMAIN itemsByDate THEN itemsByDate[dateKey] ELSE <<>>

(***************************************************************************)
(* calendarRenderer.ts: the three views.  A rendered cell is               *)
(* [key, day, outside, pills, more, empty]: pills are the items shown in   *)
(* it, more the N of its "+N more" marker (0: no marker), empty whether    *)
(* it shows "No assignments due".                                          *)
(***************************************************************************)
MAX_VISIBLE == 2

\* items.slice(0, MAX_VISIBLE)
VisibleAll(its) == its
Visible(its) == SubSeq(its, 1, IF Len(its) < MAX_VISIBLE THEN Len(its) ELSE MAX_VISIBLE)

renderDayCell(dateKey, day, outside) ==
    LET its      == ItemsOn(dateKey)
        overflow == Len(its) - MAX_VISIBLE
    IN  [key |-> dateKey, day |-> day, outside |-> outside,
         pills |-> Visible(its),
         more  |-> IF overflow > 0 THEN overflow ELSE 0,
         empty |-> FALSE]

\* a cell of the week row
renderWeekCell(dateKey, day) ==
    [key |-> dateKey, day |-> day, outside |-> FALSE,
     pills |-> ItemsOn(dateKey), more |-> 0, empty |-> FALSE]

renderMonth(date) ==
    LET year        == getFullYear(date)
        month       == getMonth(date)
        daysInMonth == getDaysInMonth(year, month)
        firstDay    == getFirstDayOfWeek(year, month)
        prevMonth   == IF month = 0 THEN 11 ELSE month - 1
        prevYear    == IF month = 0 THEN year - 1 ELSE year
        daysInPrev  == getDaysInMonth(prevYear, prevMonth)
        nextMonth   == IF month = 11 THEN 0 ELSE month + 1
        nextYear    == IF month = 11 THEN year + 1 ELSE year
        Grid(v) ==
            LET prevFill   == [j \in 1..v.firstDay |->
                                 LET day == v.daysInPrev - (v.firstDay - j)
                                 IN  renderDayCell(buildDateKey(v.prevYear, v.prevMonth, day),
                                                   day, TRUE)]
                current    == [day \in 1..v.daysInMonth |->
                                 renderDayCell(buildDateKey(v.year, v.month, day), day, FALSE)]
                totalCells == v.firstDay + v.daysInMonth
                rows       == (totalCells + 6) \div 7
                remaining  == rows * 7 - totalCells
                nextFill   == [day \in 1..remaining |->
                                 renderDayCell(buildDateKey(v.nextYear, v.nextMonth, day),
                                               day, TRUE)]
            IN  prevFill \o current \o nextFill
    IN  CHOOSE r \in
            { Grid(v) : v \in
                {[year |-> year, month |-> month, daysInMonth |-> daysInMonth,
                  firstDay |-> firstDay, prevMonth |-> prevMonth, prevYear |-> prevYear,
                  daysInPrev |-> daysInPrev, nextMonth |-> nextMonth,
                  nextYear |-> nextYear]} } : TRUE

renderWeek(anchorDate) ==
    LET Row(sunday) ==
            [j \in 1..7 |->
                LET Cell(cellDate) ==
                        renderWeekCell(dateKeyFromDate(cellDate), getDate(cellDate))
                IN  CHOOSE r \in
                        { Cell(cellDate) : cellDate \in
                            {SetDate(sunday, getDate(sunday) + (j - 1))} } : TRUE]
    IN  CHOOSE r \in { Row(sunday) : sunday \in {getSundayOfWeek(anchorDate)} } : TRUE

renderDayCapped(anchorDate) ==
    << renderDayCell(dateKeyFromDate(anchorDate), getDate(anchorDate), FALSE) >>
renderDay(anchorDate) ==
    LET key == dateKeyFromDate(anchorDate)
        its == ItemsOn(key)
    IN  << [key |-> key, day |-> getDate(anchorDate), outside |-> FALSE,
            pills |-> its, more |-> 0, empty |-> Len(its) = 0] >>

\* refresh(): the content area after it ran for a view mode and an anchor
refresh(view, date) ==
    [view  |-> view,
     cells |-> IF view = "month" THEN renderMonth(date)
               ELSE IF view = "week" THEN renderWeek(date)
               ELSE renderDay(date)]

(***************************************************************************)
(* calendarRenderer.ts: renderCalendar and its handlers                    *)
(***************************************************************************)
ViewModes == {"day", "week", "month"}

Event(op, arg, refreshed) == [op |-> op, arg |-> arg, refreshed |-> refreshed]

\* no calendar view exists
CalIdle ==
    /\ currentDate = 0
    /\ currentView = "none"
    /\ rendered = [view |-> "none", cells |-> <<>>]
    /\ itemsByDate = NoIndex
    /\ lastEvent = Event("none", "none", FALSE)

\* the anchor stays within the modelled window around the clock's date
InWindowAt(date, clock) ==
    /\ LocalDay(date) - LocalDay(clock) <= MaxNavDays
    /\ LocalDay(clock) - LocalDay(date) <= MaxNavDays

InWindow(date) == InWindowAt(date, now)

\* renderCalendar: the state after the first refresh()
RenderCalendar ==
    /\ itemsByDate = collectCalendarItems(vault)
    /\ currentDate = now
    /\ currentView = "month"
    /\ rendered = refresh("month", now)
    /\ lastEvent = Event("render", "month", TRUE)

\* the index a handler of the view leaves behind: itemsByDate is a constant
\* of renderCalendar, refresh() passes it on
IndexCollectedAgain == collectCalendarItems(vault)
IndexKept == itemsByDate

\* the anchor a click on prev / next moves to
PrevDateBy(view, date, weekStep) ==
    IF view = "month"
    THEN NewDate(getFullYear(date), getMonth(date) - 1, 1)
    ELSE IF view = "week"
    THEN NewDate(getFullYear(date), getMonth(date), getDate(date) - weekStep)
    ELSE NewDate(getFullYear(date), getMonth(date), getDate(date) - 1)

PrevDateWeekOfSix(view, date) == PrevDateBy(view, date, 6)
PrevDate(view, date) == PrevDateBy(view, date, 7)

NextDate(view, date) ==
    IF view = "month"
    THEN NewDate(getFullYear(date), getMonth(date) + 1, 1)
    ELSE IF view = "week"
    THEN NewDate(getFullYear(date), getMonth(date), getDate(date) + 7)
    ELSE NewDate(getFullYear(date), getMonth(date), getDate(date) + 1)

ClickPrev ==
    /\ currentView \in ViewModes
    /\ InWindow(PrevDate(currentView, currentDate))
    /\ currentDate' = PrevDate(currentView, currentDate)
    /\ rendered' = refresh(currentView, currentDate')
    /\ lastEvent' = Event("prev", currentView, TRUE)
    /\ itemsByDate' = IndexKept
    /\ UNCHANGED <<currentView, now, zone, ticks, urgVars, notifVars, hashCall, todoVars, syncVars>>

ClickNext ==
    /\ currentView \in ViewModes
    /\ InWindow(NextDate(currentView, currentDate))
    /\ currentDate' = NextDate(currentView, currentDate)
    /\ rendered' = refresh(currentView, currentDate')
    /\ lastEvent' = Event("next", currentView, TRUE)
    /\ itemsByDate' = IndexKept
    /\ UNCHANGED <<currentView, now, zone, ticks, urgVars, notifVars, hashCall, todoVars, syncVars>>

\* the anchor the Today button sets
TodayAnchorKept == currentDate
TodayAnchor == now

ClickToday ==
    /\ currentView \in ViewModes
    /\ currentDate' = TodayAnchor
    /\ rendered' = refresh(currentView, currentDate')
    /\ lastEvent' = Event("today", currentView, TRUE)
    /\ itemsByDate' = IndexKept
    /\ UNCHANGED <<currentView, now, zone, ticks, urgVars, notifVars, hashCall, todoVars, syncVars>>

\* the early return of a view-mode button's handler
IsCurrentViewNever(mode) == FALSE
IsCurrentView(mode) == currentView = mode

ClickViewMode(mode) ==
    /\ currentView \in ViewModes
    /\ IF IsCurrentView(mode)
       THEN /\ lastEvent' = Event("mode", mode, FALSE)
            /\ UNCHANGED <<currentDate, currentView, rendered>>
       ELSE /\ currentView' = mode
            /\ rendered' = refresh(mode, currentDate)
            /\ lastEvent' = Event("mode", mode, TRUE)
            /\ UNCHANGED currentDate
    /\ itemsByDate' = IndexKept
    /\ UNCHANGED <<now, zone, ticks, urgVars, notifVars, hashCall, todoVars, syncVars>>

\* time passes while the view exists
Tick ==
    /\ currentView \in ViewModes
    /\ ticks < MaxTicks
    /\ InWindowAt(currentDate, now + 720)
    /\ now' = now + 720
    /\ ticks' = ticks + 1
    /\ lastEvent' = Event("tick", "none", FALSE)
    /\ UNCHANGED <<zone, urgVars, notifVars, hashCall, currentDate, currentView, rendered,
                   itemsByDate, todoVars,
                   syncVars>>

\* the base names of the files in the order the vault lists them
Names == <<"Reading", "Essay", "Sketch", "Homework", "Quiz">>

\* a note of the calendar's vault
CalendarNote(folder, n, due) ==
    File(semesterBasePath \o folder \o <<Names[n]>>, Names[n], due, 1, <<>>)

\* the vaults a calendar is created on, their due dates around the day D:
\* three notes due on D, one of them with a time of day, one
\* completed note due on D and one note due the day after; two notes due
\* three days before D, one due six weeks before D, one without due date and
\* one whose due value is no date; four notes due on D + 2, one of them in a
\* subfolder of Todo
CalendarVaults(D) ==
    { << CalendarNote(<<"History", "Todo">>, 1, DateDue(D)),
         CalendarNote(<<"Math", "Todo">>, 2, TimedDue("utc", D, 23, 59)),
         CalendarNote(<<"History", "Todo">>, 3, DateDue(D)),
         CalendarNote(<<"History", "Done">>, 4, DateDue(D)),
         CalendarNote(<<"Math", "Todo">>, 5, DateDue(D + 1)) >>,
      << CalendarNote(<<"History", "Todo">>, 1, DateDue(D - 3)),
         CalendarNote(<<"History", "Todo">>, 2, NullDue),
         CalendarNote(<<"Math", "Todo">>, 3, TimedDue("local", D - 3, 0, 30)),
         CalendarNote(<<"Math", "Todo">>, 4, InvalidDue),
         CalendarNote(<<"Math", "Todo">>, 5, DateDue(D - 42)) >>,
      << CalendarNote(<<"History", "Todo">>, 1, DateDue(D + 2)),
         CalendarNote(<<"History", "Todo">>, 2, DateDue(D + 2)),
         CalendarNote(<<"Math", "Todo", "Week 1">>, 3, DateDue(D + 2)),
         CalendarNote(<<"Math", "Todo">>, 4, DateDue(D + 2)) >> }

InitCal ==
    /\ now \in CalClocks
    /\ zone \in Zones
    /\ uDue = NullDue
    /\ uResult = "pending"
    /\ ticks = 0
    /\ NotifyIdle
    /\ HashIdle
    /\ SyncIdle
    /\ TodoIdle
    /\ RenderCalendar

NextCal ==
    \/ ClickPrev
    \/ ClickNext
    \/ ClickToday
    \/ \E mode \in ViewModes : ClickViewMode(mode)
    \/ Tick

SpecCal == InitCal /\ [][NextCal]_vars

(***************************************************************************)
(* Specification of the calendar over a vault with notes: the calendar is  *)
(* created on the reference day and navigated.                             *)
(***************************************************************************)
InitCalItems ==
    /\ now = RefDay * MS_PER_DAY + 600
    /\ zone \in Zones
    /\ uDue = NullDue
    /\ uResult = "pending"
    /\ ticks = 0
    /\ NotifyIdle
    /\ HashIdle
    /\ SyncIdle
    /\ vault \in CalendarVaults(RefDay)
    /\ folders = {}
    /\ NotRendered
    /\ RenderCalendar

SpecCalItems == InitCalItems /\ [][NextCal]_vars

(***************************************************************************)
(* The notes of the model.                                                 *)
(***************************************************************************)
\* the contents a note is given: the fixture of the todoRenderer tests; the
\* note createAssignmentNote writes; Status/Todo as the only tag; the tags
\* as the last field; tags that are not indented; a body that repeats the
\* lines of the front matter; a blank line after "tags:"
NoteVariants ==
    << <<"---", "tags:", "  - Status/Todo", "  - Subject/History", "status: Todo",
         "due: 2026-02-15", "---", "", "# Assignment", "Do the thing.">>,
       <<"---", "tags:", "\t- Subject/History", "\t- Status/Todo", "due: 2026-02-15",
         "status: Todo", "canvas-id: \"42\"", "---", "", "## Assignment", "**Subject:** History">>,
       <<"---", "tags:", "  - Status/Todo", "status: Todo", "---", "# Assignment">>,
       <<"---", "status: Todo", "tags:", "  - Subject/History", "  - Status/Todo",
         "---", "Do the thing.">>,
       <<"---", "tags:", "- Status/Todo", "- Subject/History", "status: Todo", "---",
         "# Assignment">>,
       <<"---", "tags:", "  - Status/Todo", "  - Subject/History", "status: Todo",
         "---", "# Assignment", "- Status/Todo", "status: Todo">>,
       <<"---", "tags: ", "", "  - Subject/History", "  - Status/Todo", "status: Todo",
         "---", "Do the thing.">> >>

\* the note createAssignmentNote writes
TemplateVariant == 2

\* front matter `due` of the n-th note of a listing: absent, or one of two
\* dates; over the positions the dates fall into every urgency bucket
ListingDues(n) ==
    {NullDue} \cup
    (CASE n = 1 -> {DateDue(RefDay - 2), DateDue(RefDay + 1)}
       [] n = 2 -> {DateDue(RefDay + 8), DateDue(RefDay + 2)}
       [] n = 3 -> {DateDue(RefDay + 8), DateDue(RefDay + 12)}
       [] OTHER -> {DateDue(RefDay - 2), DateDue(RefDay + 8)})

\* the folders under the base path a listed file can be in
ListingFolders == {<<"History", "Todo">>, <<"Math", "Todo">>, <<"History", "Done">>}

NoteAt(folder, n, due, variant) ==
    File(semesterBasePath \o folder \o <<Names[n]>>, Names[n], due, variant,
         NoteVariants[variant])

\* what vault.getFiles() returns to the collector: the files in the folders
\* and with the due values fd gives them
Listing(fd) ==
    [n \in DOMAIN fd |-> NoteAt(fd[n][1], n, fd[n][2], TemplateVariant)]

\* the clock and the zone of the todo list
TodoClockOnly ==
    /\ now = RefDay * MS_PER_DAY + 600
    /\ zone = [std |-> -300, dst |-> TRUE, on |-> RefDay + 1, off |-> RefDay + 300]
    /\ ticks = 0
    /\ NotifyIdle
    /\ HashIdle
    /\ uDue = NullDue
    /\ uResult = "pending"
    /\ CalIdle

TodoClock == TodoClockOnly /\ SyncIdle

\* the base paths of the collector's settings: the default one, and the
\* folder Todo at the top of the vault
BasePaths == {DefaultBasePath, <<"Todo">>}

(***************************************************************************)
(* Specification of the collector: a listing is drawn, the todo list is    *)
(* rendered and its sort buttons are clicked.                              *)
(***************************************************************************)
InitCollect ==
    /\ TodoClock
    /\ \E len \in 1..MaxFiles :
          \E fd \in [1..len -> ListingFolders \X UNION {ListingDues(n) : n \in 1..len}] :
              /\ \A n \in 1..len : fd[n][2] \in ListingDues(n)
              /\ vault = Listing(fd)
    /\ folders = {}
    /\ NotRendered

TodoFrame == UNCHANGED <<now, zone, ticks, urgVars, notifVars, hashCall, calVars, syncVars>>

NextCollect ==
    \/ RenderTodoList /\ TodoFrame
    \/ \E mode \in SortModes : ClickSort(mode) /\ TodoFrame

SpecCollect == InitCollect /\ [][NextCollect]_vars

(***************************************************************************)
(* Specification of the collector under a base path of the settings: a     *)
(* base path and a short listing are drawn, the todo list is rendered and  *)
(* its sort buttons are clicked.                                           *)
(***************************************************************************)
InitSubject ==
    /\ TodoClockOnly
    /\ \E base \in BasePaths :
          settings = [canvasBaseUrl |-> "", apiToken |-> "", courseMappings |-> <<>>,
                      semesterBasePath |-> base]
    /\ NoSync
    /\ \E len \in 1..MaxSubjectFiles :
          \E fd \in [1..len -> ListingFolders \X UNION {ListingDues(n) : n \in 1..len}] :
              /\ \A n \in 1..len : fd[n][2] \in ListingDues(n)
              /\ vault = Listing(fd)
    /\ folders = {}
    /\ NotRendered

SpecSubject == InitSubject /\ [][NextCollect]_vars

(***************************************************************************)
(* Specification of the completion: three notes, of which any two are      *)
(* completed with their I/O steps interleaved.                             *)
(***************************************************************************)
InitTodo ==
    /\ TodoClock
    /\ \E v \in 1..Len(NoteVariants), subject \in {"History", "Math"} :
          vault = << NoteAt(<<"History", "Todo">>, 1, DateDue(RefDay + 3), v),
                     NoteAt(<<subject, "Todo">>, 2, NullDue, TemplateVariant),
                     NoteAt(<<"Math", "Todo">>, 3, DateDue(RefDay), 1) >>
    /\ folders \in {{}, {semesterBasePath \o <<"History", "Done">>}}
    /\ NotRendered

NextTodo ==
    \/ RenderTodoList /\ TodoFrame
    \/ \E mode \in SortModes : ClickSort(mode) /\ TodoFrame
    \/ \E c \in Slots, n \in 1..Len(dom) : ClickCheckbox(c, n) /\ TodoFrame
    \/ \E c \in Slots, ok \in BOOLEAN : ReadReturns(c, ok) /\ TodoFrame
    \/ \E c \in Slots, ok \in BOOLEAN : ModifyReturns(c, ok) /\ TodoFrame
    \/ \E c \in Slots, ok \in BOOLEAN : CreateFolderReturns(c, ok) /\ TodoFrame
    \/ \E c \in Slots, ok \in BOOLEAN : RenameReturns(c, ok) /\ TodoFrame

SpecTodo == InitTodo /\ [][NextTodo]_vars

(***************************************************************************)
(* assignmentSync.ts: the steps of syncAssignments                         *)
(***************************************************************************)
\* the note vault.create writes
NewNote(path, assignment) ==
    [File(path, path[Len(path)], assignment.due_at, TemplateVariant,
          NoteVariants[TemplateVariant])
        EXCEPT !.canvasId = CanvasId("string", assignment.id)]

Notify(s, notice) == [s EXCEPT !.notices = Append(@, notice)]

CurrentMapping(s) == s.activeMappings[s.idx].mapping
CurrentCourse(s) == s.activeMappings[s.idx].courseId

\* the loop over the mappings goes on with the next one: its fetch is
\* started, or the final notice is shown
NextCourse(s) ==
    IF s.idx < Len(s.activeMappings)
    THEN [s EXCEPT !.pc = "fetching", !.idx = @ + 1, !.published = <<>>,
                   !.existingIds = {}, !.k = 0, !.filePath = <<>>,
                   !.fetched = Append(@, s.activeMappings[s.idx + 1].courseId)]
    ELSE Notify([s EXCEPT !.pc = "done", !.idx = @ + 1],
                Notified("complete", "", s.totalCreated))

\* what was thrown in the try block of a course: by fetchAssignments, or by
\* createAssignmentNote for the assignment at position k
Thrown(s, cause) ==
    [idx |-> s.idx, cause |-> cause,
     id |-> IF cause = "create" THEN s.published[s.k].id ELSE 0]

\* the catch block of the course
CaughtIgnoringRest(s, cause) ==
    Notify([s EXCEPT !.pc = "done", !.errors = Append(@, Thrown(s, cause))],
           Notified("error", CurrentMapping(s).subject, 0))
Caught(s, cause) ==
    NextCourse(Notify([s EXCEPT !.errors = Append(@, Thrown(s, cause))],
                      Notified("error", CurrentMapping(s).subject, 0)))

\* the loop over the published assignments goes on at position k, the vault
\* having the files fs and the folders ds: the next assignment without an
\* existing note gets its note (ensureFolder first), or the course is finished
ContinueCourse(s, k, fs, ds) ==
    LET todo == {j \in k..Len(s.published) :
                    String(s.published[j].id) \notin s.existingIds}
    IN  IF todo = {} THEN NextCourse(s)
        ELSE LET j == CHOOSE j \in todo : \A i \in todo : j <= i
             IN  IF AbstractFileIn(fs, ds, todoFolderOf(CurrentMapping(s)))
                 THEN [s EXCEPT !.pc = "creating", !.k = j,
                                !.filePath = filePathOf(fs, ds, s.published[j],
                                                        CurrentMapping(s))]
                 ELSE [s EXCEPT !.pc = "ensureFolder", !.k = j]

\* which of the fetched assignments get a note
IsPublishedAll(a) == TRUE
IsPublished(a) == a.published

\* fetchAssignments has returned
AfterFetch(s, assignments) ==
    ContinueCourse(
        [s EXCEPT !.published = SelectSeq(assignments, IsPublished),
                  !.existingIds =
                      findExistingCanvasIds(semesterBasePath \o <<CurrentMapping(s).subject>>,
                                            {"Todo", "Working", "Done"})],
        1, vault, folders)

\* the checks syncAssignments makes before its first request
ConfigNoticeUrlOnly ==
    IF settings.canvasBaseUrl = "" THEN "config-missing"
    ELSE IF SelectSeq(settings.courseMappings, LAMBDA m : m.mapping.subject # "") = <<>>
    THEN "no-mappings"
    ELSE "none"
ConfigNotice ==
    IF settings.canvasBaseUrl = "" \/ settings.apiToken = "" THEN "config-missing"
    ELSE IF SelectSeq(settings.courseMappings, LAMBDA m : m.mapping.subject # "") = <<>>
    THEN "no-mappings"
    ELSE "none"

\* the fetch a run starts when it goes on to a course
FetchOf(s, f) == IF s.pc = "fetching" THEN FetchStarted(CurrentCourse(s)) ELSE f

\* syncAssignments is called
CallSyncAssignments(r) ==
    /\ sync[r].pc = "idle"
    /\ LET s == IF ConfigNotice # "none"
                THEN Notify([sync[r] EXCEPT !.pc = "done"], Notified(ConfigNotice, "", 0))
                ELSE NextCourse(Notify(
                        [sync[r] EXCEPT !.activeMappings =
                            SelectSeq(settings.courseMappings,
                                      LAMBDA m : m.mapping.subject # "")],
                        Notified("syncing", "", 0)))
       IN  /\ sync' = [sync EXCEPT ![r] = s]
           /\ fetch' = [fetch EXCEPT ![r] = FetchOf(s, @)]
    /\ UNCHANGED <<settings, server, vault, folders>>

\* requestUrl settles for a run: the loop body of fetchAssignments runs; when
\* the call ends, syncAssignments goes on up to its next await
SyncFetchResponds(r) ==
    /\ sync[r].pc = "fetching"
    /\ fetch[r].pc = "waiting"
    /\ Len(FetchAfterResponse(fetch[r]).requests) <= MaxRequests
    /\ LET f == FetchAfterResponse(fetch[r])
           s == CASE f.pc = "returned" -> AfterFetch(sync[r], f.allAssignments)
                  [] f.pc = "thrown" -> Caught(sync[r], "fetch")
                  [] OTHER -> sync[r]
       IN  /\ sync' = [sync EXCEPT ![r] = s]
           /\ fetch' = [fetch EXCEPT ![r] = IF f.pc = "waiting" THEN f ELSE FetchOf(s, f)]
    /\ UNCHANGED <<settings, server, vault, folders>>

\* vault.createFolder of ensureFolder settles; a failure is caught; the path
\* of the note is chosen and vault.create is called
CreateTodoFolderSettles(r, ok) ==
    /\ sync[r].pc = "ensureFolder"
    /\ ok => ~getAbstractFileByPath(todoFolderOf(CurrentMapping(sync[r])))
    /\ folders' = IF ok THEN folders \cup {todoFolderOf(CurrentMapping(sync[r]))} ELSE folders
    /\ sync' = [sync EXCEPT ![r] =
          [@ EXCEPT !.pc = "creating",
                    !.filePath = filePathOf(vault, folders', sync[r].published[sync[r].k],
                                            CurrentMapping(sync[r]))]]
    /\ UNCHANGED <<settings, server, fetch, vault>>

\* vault.create settles: the note exists and is counted, or the failure
\* leaves the loop over the assignments of the course
CreateSettles(r, ok) ==
    /\ sync[r].pc = "creating"
    /\ ok => ~getAbstractFileByPath(sync[r].filePath)
    /\ vault' = IF ok
                THEN Append(vault, NewNote(sync[r].filePath, sync[r].published[sync[r].k]))
                ELSE vault
    /\ LET s == IF ok
                THEN ContinueCourse(
                        [sync[r] EXCEPT !.totalCreated = @ + 1,
                                        !.created = Append(@, sync[r].published[sync[r].k].id)],
                        sync[r].k + 1, vault', folders)
                ELSE Caught(sync[r], "create")
       IN  /\ sync' = [sync EXCEPT ![r] = s]
           /\ fetch' = [fetch EXCEPT ![r] = FetchOf(s, @)]
    /\ UNCHANGED <<settings, server, folders>>

(***************************************************************************)
(* Specification of fetchAssignments: the pages of a course are drawn and  *)
(* the assignments of the course are fetched.                              *)
(***************************************************************************)
\* the assignments on page i of a course
PageItems(courseId, i) ==
    IF courseId = "101"
    THEN <<Assignment(i * 10 + 1, "Essay", DateDue(RefDay + i), TRUE),
           Assignment(i * 10 + 2, "Quiz: 1", NullDue, FALSE),
           Assignment(i * 10 + 3, "Essay?", DateDue(RefDay + 8), TRUE)>>
    ELSE <<Assignment(i * 10 + 5, "Sketch", DateDue(RefDay + i), TRUE)>>

\* the Link headers of page i of k: none; next under the key "link"; the
\* header Canvas sends under the key "Link", with and without next; a next
\* link back to the first page
LinkHeaders(courseId, i, k) ==
    {Headers(<<>>, <<>>),
     Headers(<<>>, <<Part("current", Url(courseId, i)), Part("first", Url(courseId, 1)),
                     Part("last", Url(courseId, k))>>),
     Headers(<<Part("next", Url(courseId, 1))>>, <<>>)}
    \cup (IF i < k
          THEN {Headers(<<Part("next", Url(courseId, i + 1))>>, <<>>),
                Headers(<<>>, <<Part("current", Url(courseId, i)),
                                Part("next", Url(courseId, i + 1)),
                                Part("first", Url(courseId, 1)),
                                Part("last", Url(courseId, k))>>)}
          ELSE {})

\* the pages the server can have at position i of k: a page of assignments
\* (the second page may be empty), a refusal, a rejected request
Pages(courseId, i, k) ==
    {Page(200, its, headers) :
        its \in (IF i = 2 THEN {<<>>, PageItems(courseId, i)} ELSE {PageItems(courseId, i)}),
        headers \in LinkHeaders(courseId, i, k)}
    \cup {Page(status, <<>>, Headers(<<>>, <<>>)) : status \in {404, 0}}

\* clock, zone and calendar play no part
Quiet ==
    /\ now = RefDay * MS_PER_DAY + 600
    /\ zone = [std |-> 0, dst |-> FALSE, on |-> 0, off |-> 0]
    /\ ticks = 0
    /\ NotifyIdle
    /\ HashIdle
    /\ uDue = NullDue
    /\ uResult = "pending"
    /\ CalIdle

\* nor does the todo list
NoViews == Quiet /\ TodoIdle

ConfiguredSettings(mappings) ==
    [canvasBaseUrl |-> "https://canvas", apiToken |-> "token", courseMappings |-> mappings,
     semesterBasePath |-> DefaultBasePath]

InitFetch ==
    /\ NoViews
    /\ settings = ConfiguredSettings(<<>>)
    /\ \E k \in 1..MaxPages :
          \E pages \in [1..k -> UNION {Pages("101", i, k) : i \in 1..k}] :
              /\ \A i \in 1..k : pages[i] \in Pages("101", i, k)
              /\ server = [c \in Courses |-> IF c = "101" THEN pages ELSE <<>>]
    /\ fetch = [r \in Runs |-> IdleFetch]
    /\ sync = [r \in Runs |-> IdleSync]

SyncFrame == UNCHANGED <<now, zone, ticks, urgVars, notifVars, hashCall, calVars, items, currentSort, dom,
                         renderGen, calls, notices>>

\* a step of the call: the response to its request arrives
FetchStep == FetchResponds(1) /\ SyncFrame /\ UNCHANGED <<vault, folders>>

NextFetch ==
    \/ CallFetchAssignments(1, "101") /\ SyncFrame /\ UNCHANGED <<vault, folders>>
    \/ FetchStep

SpecFetch == InitFetch /\ [][NextFetch]_vars

\* requestUrl settles every request
SpecFetchFair == SpecFetch /\ WF_vars(FetchStep)

(***************************************************************************)
(* Specification of syncAssignments: settings, server and vault are drawn  *)
(* and one sync runs.                                                      *)
(***************************************************************************)
\* what the server has for a course: one page; a chain of two pages; a
\* first page that is refused; a request that is rejected; a chain whose
\* second page is refused
CourseServers(c) ==
    { <<Page(200, PageItems(c, 1), Headers(<<>>, <<>>))>>,
      <<Page(200, PageItems(c, 1), Headers(<<Part("next", Url(c, 2))>>, <<>>)),
        Page(200, PageItems(c, 2), Headers(<<>>, <<>>))>>,
      <<Page(404, <<>>, Headers(<<>>, <<>>))>>,
      <<Page(0, <<>>, Headers(<<>>, <<>>))>>,
      <<Page(200, PageItems(c, 1), Headers(<<Part("next", Url(c, 2))>>, <<>>)),
        Page(500, <<>>, Headers(<<>>, <<>>))>> }

\* the course mappings of the settings, in the order Object.entries lists them
CourseMappings ==
    { <<>>,
      <<Mapping("101", "History")>>,
      <<Mapping("101", "History"), Mapping("102", "Math")>>,
      <<Mapping("101", ""), Mapping("102", "Math")>>,
      <<Mapping("101", ""), Mapping("102", "")>>,
      <<Mapping("101", "History"), Mapping("102", "History")>> }

ExistingNote(folder, basename, canvasId) ==
    [File(semesterBasePath \o folder \o <<basename>>, basename, NullDue, TemplateVariant,
          NoteVariants[TemplateVariant])
        EXCEPT !.canvasId = canvasId]

FoldersOf(fs) == {SubSeq(fs[f].path, 1, Len(fs[f].path) - 1) : f \in 1..Len(fs)}

\* the notes the vault has before the sync: none; a completed note of
\* assignment 11; a note of assignment 13 in Working, its id written as a
\* number, and a note named Essay that is not from Canvas; a note of
\* assignment 15 in a subfolder of Math/Todo
Vaults ==
    { <<>>,
      <<ExistingNote(<<"History", "Done">>, "Essay", CanvasId("string", 11))>>,
      <<ExistingNote(<<"History", "Working">>, "Old", CanvasId("number", 13)),
        ExistingNote(<<"History", "Todo">>, "Essay", NoCanvasId)>>,
      <<ExistingNote(<<"Math", "Todo", "Week 1">>, "Sketch", CanvasId("string", 15))>> }

InitSync ==
    /\ Quiet
    /\ NotRendered
    /\ \E url \in {"", "https://canvas"}, token \in {"", "token"} :
          \E mappings \in CourseMappings :
              settings = [canvasBaseUrl |-> url, apiToken |-> token,
                          courseMappings |-> mappings,
                          semesterBasePath |-> DefaultBasePath]
    /\ vault \in Vaults
    /\ folders = FoldersOf(vault)
            \cup {SubSeq(p, 1, Len(p) - 1) : p \in {q \in FoldersOf(vault) : Len(q) > 4}}
    /\ server \in [Courses -> UNION {CourseServers(c) : c \in Courses}]
    /\ \A c \in Courses : server[c] \in CourseServers(c)
    /\ fetch = [r \in Runs |-> IdleFetch]
    /\ sync = [r \in Runs |-> IdleSync]

NextSync ==
    \/ CallSyncAssignments(1) /\ SyncFrame
    \/ SyncFetchResponds(1) /\ SyncFrame
    \/ \E ok \in BOOLEAN : CreateTodoFolderSettles(1, ok) /\ SyncFrame
    \/ \E ok \in BOOLEAN : CreateSettles(1, ok) /\ SyncFrame

SpecSync == InitSync /\ [][NextSync]_vars

(***************************************************************************)
(* Specification of two runs of syncAssignments: the command, the startup  *)
(* timer and the interval timer each start a run whether or not another is *)
(* under way.  One course is mapped; its server has one page.              *)
(***************************************************************************)
InitOverlap ==
    /\ Quiet
    /\ NotRendered
    /\ settings = ConfiguredSettings(<<Mapping("101", "History")>>)
    /\ vault \in Vaults
    /\ folders = FoldersOf(vault)
    /\ server = [c \in Courses |-> CHOOSE pages \in CourseServers(c) :
                                       Len(pages) = 1 /\ pages[1].status = 200]
    /\ fetch = [r \in Runs |-> IdleFetch]
    /\ sync = [r \in Runs |-> IdleSync]

NextOverlap ==
    \/ \E r \in Runs : CallSyncAssignments(r) /\ SyncFrame
    \/ \E r \in Runs : SyncFetchResponds(r) /\ SyncFrame
    \/ \E r \in Runs, ok \in BOOLEAN : CreateTodoFolderSettles(r, ok) /\ SyncFrame
    \/ \E r \in Runs, ok \in BOOLEAN : CreateSettles(r, ok) /\ SyncFrame

SpecOverlap == InitOverlap /\ [][NextOverlap]_vars

(***************************************************************************)
(* Specification of a calendar view during a sync: the calendar is created *)
(* on a vault with notes, then it is navigated while a sync, started by    *)
(* the command or a timer, fetches a course and writes its notes; the      *)
(* subject of the course has no folder yet.                                *)
(***************************************************************************)
InitCalSync ==
    /\ now = RefDay * MS_PER_DAY + 600
    /\ zone = [std |-> 0, dst |-> FALSE, on |-> 0, off |-> 0]
    /\ uDue = NullDue
    /\ uResult = "pending"
    /\ ticks = 0
    /\ NotifyIdle
    /\ HashIdle
    /\ settings = ConfiguredSettings(<<Mapping("101", "Art")>>)
    /\ server = [c \in Courses |-> CHOOSE pages \in CourseServers(c) :
                                       Len(pages) = 1 /\ pages[1].status = 200]
    /\ fetch = [r \in Runs |-> IdleFetch]
    /\ sync = [r \in Runs |-> IdleSync]
    /\ vault \in {v \in CalendarVaults(RefDay) : v[1].due = DateDue(RefDay)}
    /\ folders = FoldersOf(vault)
    /\ NotRendered
    /\ RenderCalendar

NextCalSync ==
    \/ ClickPrev
    \/ ClickNext
    \/ ClickToday
    \/ \E mode \in ViewModes : ClickViewMode(mode)
    \/ Tick
    \/ CallSyncAssignments(1) /\ SyncFrame
    \/ SyncFetchResponds(1) /\ SyncFrame
    \/ \E ok \in BOOLEAN : CreateTodoFolderSettles(1, ok) /\ SyncFrame
    \/ \E ok \in BOOLEAN : CreateSettles(1, ok) /\ SyncFrame

SpecCalSync == InitCalSync /\ [][NextCalSync]_vars

(***************************************************************************)
(* Specification of the notifications: a caller owns sentKeys and, over a  *)
(* day and a half, calls checkAndNotify and clearStaleKeys in any order.   *)
(* The vault has a note due on the reference day, one due the day after,   *)
(* one due at a local time of the day after, one without due date and one  *)
(* that is done.                                                           *)
(***************************************************************************)
InitNotify ==
    /\ now = RefDay * MS_PER_DAY + 420
    /\ zone \in Zones
    /\ uDue = NullDue
    /\ uResult = "pending"
    /\ ticks = 0
    /\ HashIdle
    /\ CalIdle
    /\ SyncIdle
    /\ vault = << CalendarNote(<<"History", "Todo">>, 1, DateDue(RefDay)),
                  CalendarNote(<<"Math", "Todo">>, 2, DateDue(RefDay + 1)),
                  CalendarNote(<<"Math", "Todo">>, 3, TimedDue("local", RefDay + 1, 9, 0)),
                  CalendarNote(<<"History", "Todo">>, 4, NullDue),
                  CalendarNote(<<"History", "Done">>, 5, DateDue(RefDay)) >>
    /\ folders = {}
    /\ NotRendered
    /\ \E enabled \in BOOLEAN, eve \in BOOLEAN, morning \in BOOLEAN :
          notifySettings = [notificationsEnabled |-> enabled,
                            notifyEveningBefore |-> eve, notifyMorningOf |-> morning]
    /\ sentKeys = {}
    /\ notified = <<>>
    /\ notifyCall = NoNotifyCall

NextNotify ==
    \/ CallCheckAndNotify
    \/ \E todayStr \in DateStrs, lastDate \in DateStrs :
          CallClearStaleKeys(todayStr, lastDate)
    \/ HoursPass

SpecNotify == InitNotify /\ [][NextNotify]_vars

(***************************************************************************)
(* Specification of hashSubject: called once on a subject of at most       *)
(* MaxSubjectLen code units drawn from letters, digits, punctuation and a  *)
(* character outside Latin-1.                                              *)
(***************************************************************************)
\* "A", "z", "7", "'", "<", ")", "@" and U+0914
SubjectCodes == {65, 122, 55, 39, 60, 41, 64, 2324}

SubjectsOfLen(n) == [1..n -> SubjectCodes]

InitHash ==
    /\ now = RefDay * MS_PER_DAY
    /\ zone = [std |-> 0, dst |-> FALSE, on |-> 0, off |-> 0]
    /\ uDue = NullDue
    /\ uResult = "pending"
    /\ ticks = 0
    /\ NotifyIdle
    /\ CalIdle
    /\ TodoIdle
    /\ SyncIdle
    /\ \E n \in 0..MaxSubjectLen :
          \E subject \in SubjectsOfLen(n) : hashCall = [NoHashCall EXCEPT !.subject = subject]

NextHash == CallHashSubject

SpecHash == InitHash /\ [][NextHash]_vars

(***************************************************************************)
(* Specification of the urgency classifier: the inputs are drawn, then     *)
(* getUrgency is called.                                                   *)
(***************************************************************************)
InitUrgency ==
    /\ now \in Clocks
    /\ zone \in Zones
    /\ uDue \in DueValues
    /\ uResult = "pending"
    /\ ticks = 0
    /\ NotifyIdle
    /\ HashIdle
    /\ CalIdle
    /\ TodoIdle
    /\ SyncIdle

CallGetUrgency ==
    /\ uResult = "pending"
    /\ uResult' = getUrgency(uDue)
    /\ UNCHANGED <<now, zone, ticks, uDue, calVars, todoVars, syncVars, notifVars, hashCall>>

NextUrgency == CallGetUrgency

SpecUrgency == InitUrgency /\ [][NextUrgency]_vars

(***************************************************************************)
(* Claims about getUrgency.                                                *)
(***************************************************************************)
\* the whole-day difference between the local calendar date of the due
\* date and the local calendar date of now
DayDifference(due) == LocalDay(ParseDate(due)) - LocalDay(now)

HasCalendarDate(due) == due.form \in {"date", "utc", "local"}

ExpectedUrgency(n) ==
    CASE n < 0 -> "overdue"
      [] n = 0 -> "today"
      [] n = 1 -> "tomorrow"
      [] n >= 2 /\ n <= 7 -> "week"
      [] n > 7 -> "later"

\* C1: getUrgency is a function of the whole-day difference n between the
\* local calendar dates of the due date and of now: n < 0 overdue, 0 today,
\* 1 tomorrow, 2..7 week, more than 7 later; an absent due date gives none.
C1_UrgencyByDayDifference ==
    uResult # "pending" =>
        /\ uDue = NullDue => uResult = "none"
        /\ HasCalendarDate(uDue) => uResult = ExpectedUrgency(DayDifference(uDue))

\* a due date seven days ahead, across a change of the UTC offset, is "week"
C1_Witness ==
    /\ uResult = "week"
    /\ HasCalendarDate(uDue)
    /\ DayDifference(uDue) = 7
    /\ OffsetAt(ParseDate(uDue)) # OffsetAt(now)

\* the due values are written with the same YYYY-MM-DD
SameWrittenDate(a, b) ==
    /\ HasCalendarDate(a)
    /\ HasCalendarDate(b)
    /\ a.y = b.y /\ a.m = b.m /\ a.d = b.d

\* C16: due values written with the same calendar date, whatever their time
\* of day or zone suffix, get the same bucket, at every clock and in every
\* zone: the bucket getUrgency has returned for a due value is the bucket of
\* every other due value with the same YYYY-MM-DD
C16_SameDateSameBucket ==
    uResult # "pending" =>
        \A other \in DueValues :
            SameWrittenDate(uDue, other) => getUrgency(other) = uResult

(***************************************************************************)
(* Claims about the calendar view.                                         *)
(***************************************************************************)
\* the local calendar date of the anchor
AnchorCivil(date) == CivilFromDays(LocalDay(date))

FirstOfPreviousMonth(c) ==
    IF c.m = 1 THEN [y |-> c.y - 1, m |-> 12, d |-> 1]
    ELSE [y |-> c.y, m |-> c.m - 1, d |-> 1]

FirstOfNextMonth(c) ==
    IF c.m = 12 THEN [y |-> c.y + 1, m |-> 1, d |-> 1]
    ELSE [y |-> c.y, m |-> c.m + 1, d |-> 1]

\* C2: prev and next move the anchor by exactly one unit of the current mode
\* and leave the mode unchanged: in month mode to the 1st of the previous or
\* next calendar month, in week mode by 7 days, in day mode by 1 day.
C2_PrevNextOneUnit ==
    [][ lastEvent'.op \in {"prev", "next"} =>
          LET back == lastEvent'.op = "prev"
              sign == IF back THEN -1 ELSE 1
          IN  /\ currentView' = currentView
              /\ currentView = "month" =>
                    AnchorCivil(currentDate') =
                        IF back THEN FirstOfPreviousMonth(AnchorCivil(currentDate))
                        ELSE FirstOfNextMonth(AnchorCivil(currentDate))
              /\ currentView = "week" =>
                    LocalDay(currentDate') = LocalDay(currentDate) + 7 * sign
              /\ currentView = "day" =>
                    LocalDay(currentDate') = LocalDay(currentDate) + sign
      ]_vars

\* prev in month mode has crossed from January 2026 to 1 December 2025
C2_Witness ==
    /\ lastEvent = Event("prev", "month", TRUE)
    /\ currentView = "month"
    /\ AnchorCivil(currentDate) = [y |-> 2025, m |-> 12, d |-> 1]

\* C3: a click on the button of mode m sets the mode to m and keeps the
\* anchor; when m is already the mode, nothing changes and nothing is
\* rendered again.
C3_ViewModeSwitch ==
    [][ lastEvent'.op = "mode" =>
          /\ currentView' = lastEvent'.arg
          /\ currentDate' = currentDate
          /\ lastEvent'.arg = currentView =>
                /\ rendered' = rendered
                /\ ~lastEvent'.refreshed
      ]_vars

\* the button of the current mode was clicked on a view navigated away from today
C3_Witness ==
    /\ lastEvent = Event("mode", "week", FALSE)
    /\ currentView = "week"
    /\ LocalDay(currentDate) # LocalDay(now)

\* C4: from every reachable view state, Today sets the anchor to the
\* current date and keeps the mode.
C4_TodayResets ==
    [][ lastEvent'.op = "today" =>
          /\ LocalDay(currentDate') = LocalDay(now')
          /\ currentView' = currentView
      ]_vars

\* Today was clicked in day mode after the clock had moved on
C4_Witness ==
    /\ lastEvent = Event("today", "day", TRUE)
    /\ currentView = "day"
    /\ ticks = MaxTicks
    /\ LocalDay(currentDate) = LocalDay(now)

IsLeapYear(y) == (y % 4 = 0 /\ y % 100 # 0) \/ y % 400 = 0

\* the length of month m (1..12) of year y in the Gregorian calendar
GregorianDaysInMonth(y, m) ==
    IF m = 2 THEN (IF IsLeapYear(y) THEN 29 ELSE 28)
    ELSE IF m \in {4, 6, 9, 11} THEN 30
    ELSE 31

\* C5: the month grid has 7 * ceil((firstWeekdayOffset + daysInMonth) / 7)
\* cells, a multiple of 7, and every day of the target month is the date of
\* exactly one cell.
C5_MonthGridWholeWeeks ==
    rendered.view = "month" =>
        LET c     == AnchorCivil(currentDate)
            dim   == GregorianDaysInMonth(c.y, c.m)
            first == (DaysFromCivil(c.y, c.m, 1) + 4) % 7
            cells == rendered.cells
        IN  /\ Len(cells) % 7 = 0
            /\ Len(cells) = 7 * ((first + dim + 6) \div 7)
            /\ \A d \in 1..dim :
                  Cardinality({i \in 1..Len(cells) : cells[i].key = <<c.y, c.m, d>>}) = 1

\* a month that needs six rows, with days of both neighbouring months
C5_Witness ==
    /\ rendered.view = "month"
    /\ Len(rendered.cells) = 42
    /\ rendered.cells[1].outside
    /\ rendered.cells[42].outside

\* the items the index holds for a date key, in index order
IndexItems(key) == IF key \in DOMAIN itemsByDate THEN itemsByDate[key] ELSE <<>>

\* the day number of a date key
KeyDay(key) == DaysFromCivil(key[1], key[2], key[3])

\* the date key of the anchor's local calendar date
AnchorKey == <<AnchorCivil(currentDate).y, AnchorCivil(currentDate).m, AnchorCivil(currentDate).d>>

\* C17: a cell of the month grid whose date has k items in the index shows
\* min(k, 2) pills, the first items in index order, and a "+N more" marker
\* exactly if k > 2, with N = k - 2; pills and N add up to k
C17_MonthCellCapsPills ==
    rendered.view = "month" =>
        \A j \in 1..Len(rendered.cells) :
            LET cell == rendered.cells[j]
                its  == IndexItems(cell.key)
                k    == Len(its)
            IN  /\ Len(cell.pills) = IF k < 2 THEN k ELSE 2
                /\ \A n \in 1..Len(cell.pills) : cell.pills[n] = its[n]
                /\ cell.more > 0 <=> k > 2
                /\ k > 2 => cell.more = k - 2
                /\ Len(cell.pills) + cell.more = k

\* after a return to the month view a day of the month with four items
\* shows two pills and "+2 more", while other cells show no pill
C17_Witness ==
    /\ rendered.view = "month"
    /\ lastEvent.op \in {"today", "mode"}
    /\ \E j \in 1..Len(rendered.cells) :
          /\ ~rendered.cells[j].outside
          /\ Len(IndexItems(rendered.cells[j].key)) = 4
          /\ Len(rendered.cells[j].pills) = 2
          /\ rendered.cells[j].more = 2
    /\ \E j \in 1..Len(rendered.cells) :
          rendered.cells[j].pills = <<>> /\ rendered.cells[j].more = 0

\* C18: the week view has seven cells, for seven consecutive dates from a
\* Sunday to the following Saturday, the anchor's date is one of them, and
\* each cell shows the items the index holds for its date, all of them
C18_WeekSevenDaysFromSunday ==
    rendered.view = "week" =>
        LET cells == rendered.cells
        IN  /\ Len(cells) = 7
            \* 1970-01-01 was a Thursday
            /\ (KeyDay(cells[1].key) + 4) % 7 = 0
            /\ \A j \in 1..6 : KeyDay(cells[j + 1].key) = KeyDay(cells[j].key) + 1
            /\ \A j \in 1..7 : CivilFromDays(KeyDay(cells[j].key)) =
                                   [y |-> cells[j].key[1], m |-> cells[j].key[2],
                                    d |-> cells[j].key[3]]
            /\ \E j \in 1..7 : cells[j].key = AnchorKey
            /\ \A j \in 1..7 : /\ cells[j].pills = IndexItems(cells[j].key)
                               /\ cells[j].more = 0
                               /\ ~cells[j].empty

\* a week reached by navigation whose anchor is its Saturday: the cell of
\* the Saturday shows its four items, the cell of the Sunday none
C18_Witness ==
    /\ rendered.view = "week"
    /\ lastEvent.op \in {"prev", "next"}
    /\ rendered.cells[7].key = AnchorKey
    /\ Len(rendered.cells[7].pills) = 4
    /\ rendered.cells[1].pills = <<>>

\* C19: the day view shows the items of the index whose date key is the
\* anchor's date, all of them and none of another date, and it shows "No
\* assignments due" exactly if there is none
C19_DayShowsItsItems ==
    rendered.view = "day" =>
        LET shown == rendered.cells[1].pills
        IN  /\ Len(rendered.cells) = 1
            /\ shown = IndexItems(AnchorKey)
            /\ \A key \in DOMAIN itemsByDate :
                   \A n \in 1..Len(itemsByDate[key]) :
                       (\E i \in 1..Len(shown) : shown[i] = itemsByDate[key][n])
                           <=> key = AnchorKey
            /\ rendered.cells[1].empty <=> shown = <<>>
            /\ rendered.cells[1].more = 0

\* the day with three items, one of them due late that day in UTC: all
\* three are shown and the empty state is not
C19_Witness ==
    /\ rendered.view = "day"
    /\ Len(rendered.cells[1].pills) = 3
    /\ ~rendered.cells[1].empty
    /\ \E i \in 1..3 : vault[rendered.cells[1].pills[i].file].due.form = "utc"
    /\ \E key \in DOMAIN itemsByDate : key # AnchorKey

\* C24: the index of a calendar view is built when the view is created; no
\* click on prev, next, today or a view mode and no step of a sync changes
\* it, and what a refresh shows in a cell are items of that index, so notes
\* a sync writes while the view exists do not appear in it
C24_IndexBuiltOnce ==
    [][ /\ itemsByDate' = itemsByDate
        /\ \A j \in 1..Len(rendered'.cells) :
               LET cell == rendered'.cells[j]
               IN  /\ Len(cell.pills) <= Len(IndexItems(cell.key))
                   /\ \A n \in 1..Len(cell.pills) : cell.pills[n] = IndexItems(cell.key)[n]
                   /\ Len(cell.pills) + cell.more = Len(IndexItems(cell.key)) ]_vars

\* a sync has written two notes with due dates while the view existed; the
\* view was refreshed by a click and its month grid has no pill on the
\* date of the second note, which collecting again would put there
C24_Witness ==
    /\ sync[1].pc = "done"
    /\ Len(sync[1].created) = 2
    /\ rendered.view = "month"
    /\ lastEvent.op = "today"
    /\ itemsByDate # collectCalendarItems(vault)
    /\ \E j \in 1..Len(rendered.cells) :
          /\ rendered.cells[j].key = DateKeyOfDue(vault[Len(vault)].due)
          /\ rendered.cells[j].pills = <<>>
          /\ rendered.cells[j].key \in DOMAIN collectCalendarItems(vault)

\* C28: after a click on next, the click on prev in the same mode leads
\* back, and after a click on prev so does the click on next: in week and
\* day mode to the date the anchor had, in month mode to the 1st of the
\* month the anchor was in
C28_NextPrevRestores ==
    [][ lastEvent'.op \in {"prev", "next"} =>
          LET back == IF lastEvent'.op = "next"
                      THEN PrevDate(currentView', currentDate')
                      ELSE NextDate(currentView', currentDate')
          IN  /\ currentView' = currentView
              /\ currentView \in {"week", "day"} =>
                    AnchorCivil(back) = AnchorCivil(currentDate)
              /\ currentView = "month" =>
                    AnchorCivil(back) = [AnchorCivil(currentDate) EXCEPT !.d = 1]
              /\ back = NewDate(AnchorCivil(back).y, AnchorCivil(back).m - 1,
                                AnchorCivil(back).d)
      ]_vars

\* a week view is back on the day of the clock by a click on prev; the
\* anchor is the midnight of that day, not the instant the view was
\* created with
C28_Witness ==
    /\ lastEvent = Event("prev", "week", TRUE)
    /\ LocalDay(currentDate) = LocalDay(now)
    /\ currentDate # now
    /\ ticks = 0

(***************************************************************************)
(* Claims about the subject colours.                                       *)
(***************************************************************************)
\* the hash as a number: 31 times the hash so far plus the code unit,
\* modulo 2^32, from the code unit i on
RECURSIVE Times31Hash(_, _, _)
Times31Hash(subject, i, h) ==
    IF i > Len(subject) THEN h
    ELSE LET lo == 31 * h.lo + subject[i]
         IN  Times31Hash(subject, i + 1, Word(31 * h.hi + lo \div 65536, lo))

\* C26: hashSubject returns an index of the palette, 0..9, for every
\* subject, also when the 32-bit hash is negative or -2^31; the index is
\* the magnitude of the multiply-by-31 hash modulo 10, so equal subjects
\* get the same entry
C26_HashIndexInPalette ==
    hashCall.called =>
        LET h == Times31Hash(hashCall.subject, 1, Word(0, 0))
        IN  /\ hashCall.index \in 0..(PaletteLength - 1)
            /\ h.hi < 32768 => hashCall.index = SignedOf(h) % PaletteLength
            /\ h.hi >= 32768 /\ SignedOf(h) # -2147483647 - 1 =>
                   hashCall.index = (-SignedOf(h)) % PaletteLength
            /\ SignedOf(h) = -2147483647 - 1 => hashCall.index = 8

\* hashSubject has returned 8 for a subject whose hash is -2^31
C26_Witness ==
    /\ hashCall.called
    /\ SignedOf(HashLoop(hashCall.subject, 1, Word(0, 0))) = -2147483647 - 1
    /\ hashCall.index = 8

(***************************************************************************)
(* Claims about the notifications.                                         *)
(***************************************************************************)
\* C25: since sentKeys was last emptied no key has had more than one
\* notification, however often checkAndNotify ran, and every key notified
\* is in the set; clearStaleKeys returns true exactly when the last-seen
\* date differs from today, and then leaves the set empty; otherwise it
\* returns false and leaves the set as it was
C25_OncePerKeyUntilReset ==
    /\ \A i, j \in 1..Len(notified) : notified[i] = notified[j] => i = j
    /\ \A i \in 1..Len(notified) : notified[i] \in sentKeys
    /\ notifyCall.op = "clearStaleKeys" =>
          /\ notifyCall.returned = (notifyCall.lastDate # notifyCall.todayStr)
          /\ sentKeys = IF notifyCall.returned THEN {} ELSE notifyCall.before

\* checkAndNotify has just run on a vault with a note that is due for its
\* morning notification and one due for its evening notification, both
\* notified by an earlier run: this run showed nothing
C25_Witness ==
    /\ notifyCall.op = "checkAndNotify"
    /\ notifyCall.at = now
    /\ notifyCall.before = sentKeys
    /\ \E i, j \in 1..Len(vault) :
          /\ NotifyKey(vault[i].path, "morning") \in sentKeys
          /\ "morning" \in {KindsDue(vault, i)[n] : n \in 1..Len(KindsDue(vault, i))}
          /\ NotifyKey(vault[j].path, "eve") \in sentKeys
          /\ "eve" \in {KindsDue(vault, j)[n] : n \in 1..Len(KindsDue(vault, j))}
    /\ Len(notified) >= 2

(***************************************************************************)
(* Claims about the todo list and completeItem.                            *)
(***************************************************************************)
\* the call is the only one made for its file
SoleCall(c) == \A b \in Slots : b # c => calls[b].file # calls[c].file

\* the subject folder the item of file f was collected from
SubjectOf(f) == items[CHOOSE k \in 1..Len(items) : items[k].file = f].subject

TodoPathOf(f) == TodoPath(SubjectOf(f), vault[f].basename)
DonePathOf(f) == semesterBasePath \o <<SubjectOf(f), "Done", vault[f].basename>>

\* the content the note of file f had when the list was rendered
OriginalContent(f) == NoteVariants[vault[f].variant]

\* the line that closes the front matter opened on line 1
FrontMatterEnd(lines) ==
    CHOOSE e \in 2..Len(lines) :
        lines[e] = "---" /\ \A j \in 2..(e - 1) : lines[j] # "---"

FrontMatter(lines) == SubSeq(lines, 2, FrontMatterEnd(lines) - 1)
Body(lines) == SubSeq(lines, FrontMatterEnd(lines) + 1, Len(lines))

\* a list entry of the front matter that names the tag Status/Todo
StatusTodoTagLines == {"  - Status/Todo", "\t- Status/Todo", "- Status/Todo"}

NonBlank(lines) == SelectSeq(lines, LAMBDA l : l # "")

\* the front matter without its Status/Todo tag lines and with status Done
ExpectedFrontMatter(fm) ==
    LET kept == SelectSeq(fm, LAMBDA l : l \notin StatusTodoTagLines)
    IN  [k \in 1..Len(kept) |-> IF kept[k] = "status: Todo" THEN "status: Done" ELSE kept[k]]

HasRow(f) == \E n \in 1..Len(dom) : dom[n].kind = "row" /\ dom[n].file = f

\* C6: once completeItem has succeeded for an item, no row of the list shows
\* that item, whatever is done with the view afterwards
C6_CompletedItemNotDisplayed ==
    \A c \in Slots : calls[c].pc = "done" => ~HasRow(calls[c].file)

CompleteItemSteps == <<"read", "modify", "createFolder", "renameFile">>

\* C8: the I/O steps of completeItem are issued in the order read, modify,
\* createFolder, renameFile; a call whose move failed has failed with that
\* error, its note has the rewritten content at the Todo path, no notice was
\* shown for it and its row is still there; a call that finished has moved
\* its note
C8_MoveFailureKeepsEdit ==
    \A c \in Slots :
        /\ calls[c].log = SubSeq(CompleteItemSteps, 1, Len(calls[c].log))
        /\ InFlight(c) => calls[c].log[Len(calls[c].log)] = calls[c].pc
        /\ (calls[c].error = "renameFile" /\ SoleCall(c)) =>
              LET f == calls[c].file
              IN  /\ calls[c].pc = "failed"
                  /\ calls[c].log = CompleteItemSteps
                  /\ vault[f].content = CompletedContent(OriginalContent(f))
                  /\ \E k \in 1..Len(vault[f].content) : vault[f].content[k] = "status: Done"
                  /\ vault[f].path = TodoPathOf(f)
                  /\ notices[f] = 0
                  /\ HasRow(f)
        /\ (calls[c].pc = "done" /\ SoleCall(c)) =>
              /\ vault[calls[c].file].path = DonePathOf(calls[c].file)
              /\ notices[calls[c].file] = 1

\* a call whose move failed after it rewrote the note
C8_Witness ==
    \E c \in Slots :
        /\ calls[c].pc = "failed"
        /\ calls[c].error = "renameFile"
        /\ SoleCall(c)
        /\ vault[calls[c].file].content # OriginalContent(calls[c].file)
        /\ vault[calls[c].file].path = TodoPathOf(calls[c].file)

\* the rows a finished call removed: those it was started from
RemovedBy(node) ==
    /\ node.kind = "row"
    /\ \E c \in Slots :
          calls[c].pc = "done" /\ calls[c].file = node.file /\ calls[c].rowGen = node.gen

\* C9: when two calls for different items have both finished, however their
\* steps interleaved, each note has its own rewritten content at its own Done
\* path with one notice, every other note is untouched, and the list is the
\* rendered list without the rows of the finished calls
C9_InterleavedCallsIndependent ==
    \A a, b \in Slots :
        (/\ a # b
         /\ calls[a].pc = "done" /\ calls[b].pc = "done"
         /\ SoleCall(a) /\ SoleCall(b)) =>
            /\ \A c \in {a, b} :
                  /\ vault[calls[c].file].content
                        = CompletedContent(OriginalContent(calls[c].file))
                  /\ vault[calls[c].file].path = DonePathOf(calls[c].file)
                  /\ notices[calls[c].file] = 1
            /\ \A f \in 1..Len(vault) :
                  (\A c \in Slots : calls[c].file # f) =>
                      /\ vault[f].content = OriginalContent(f)
                      /\ vault[f].path = TodoPathOf(f)
                      /\ notices[f] = 0
            /\ dom = SelectSeq(renderItems(items, currentSort, renderGen),
                               LAMBDA node : ~RemovedBy(node))

\* two calls for different notes of one subject, the second started while the
\* first waited, have both finished and removed their rows
C9_Witness ==
    /\ calls[1].pc = "done" /\ calls[2].pc = "done"
    /\ calls[1].file # calls[2].file
    /\ calls[2].overlapped
    /\ SubjectOf(calls[1].file) = SubjectOf(calls[2].file)
    /\ vault[calls[1].file].content # vault[calls[2].file].content
    /\ ~HasRow(calls[1].file) /\ ~HasRow(calls[2].file)
    /\ \E f \in 1..Len(vault) : HasRow(f)

\* C21: whatever createFolder returns, the call goes on to renameFile
\* without an error, a notice or a change of the list; and the call that
\* waits for renameFile finishes, with its notice and its row removed,
\* exactly if the note is moved to the new path, and fails otherwise
C21_CreateFolderFailureSwallowed ==
    [][ \A c \in Slots :
          /\ (calls[c].pc = "createFolder" /\ calls'[c] # calls[c]) =>
                /\ calls'[c].pc = "renameFile"
                /\ calls'[c].error = "none"
                /\ calls'[c].log = Append(calls[c].log, "renameFile")
                /\ calls'[c].caught <=> folders' = folders
                /\ notices' = notices
                /\ dom' = dom
                /\ vault' = vault
          /\ (calls[c].pc = "renameFile" /\ calls'[c] # calls[c]) =>
                LET moved == /\ vault[calls[c].file].path # calls[c].newPath
                             /\ vault'[calls[c].file].path = calls[c].newPath
                IN  /\ calls'[c].pc \in {"done", "failed"}
                    /\ calls'[c].pc = "done" <=> moved
                    /\ moved <=> notices'[calls[c].file] = notices[calls[c].file] + 1
                    /\ calls'[c].pc = "failed" => calls'[c].error = "renameFile" ]_vars

\* the Done folder existed, createFolder failed, and the call has moved the
\* note and finished; another call, whose createFolder failed, has failed at
\* the move
C21_Witness ==
    \E c \in Slots :
        /\ calls[c].pc = "done"
        /\ calls[c].caught
        /\ ParentFolder(calls[c].newPath) \in folders
        /\ vault[calls[c].file].path = calls[c].newPath
        /\ notices[calls[c].file] = 1
        /\ \E b \in Slots : calls[b].caught /\ calls[b].error = "renameFile"

(***************************************************************************)
(* Claims about the collector.                                             *)
(***************************************************************************)
\* the files the collector selects: markdown files in a Todo folder of a
\* subject under the base path
SelectedFiles ==
    {f \in 1..Len(vault) :
        /\ vault[f].extension = "md"
        /\ Len(vault[f].path) = Len(semesterBasePath) + 3
        /\ SubSeq(vault[f].path, 1, Len(semesterBasePath)) = semesterBasePath
        /\ vault[f].path[Len(semesterBasePath) + 2] = "Todo"}

\* the calendar date of a due value as a day number
DueOrdinal(due) == DaysFromCivil(due.y, due.m, due.d)

HasDue(it) == it.due.form # "null"

\* C10: the collected items are the selected files, ordered by due date
\* ascending with the items without due date last; items with the same due
\* date, and the items without one, are in the order of the listing
C10_CollectorSortedStable ==
    currentSort # "none" =>
        /\ Len(items) = Cardinality(SelectedFiles)
        /\ {items[k].file : k \in 1..Len(items)} = SelectedFiles
        /\ \A k \in 1..Len(items) : items[k].due = vault[items[k].file].due
        /\ \A i, j \in 1..Len(items) :
              i < j =>
                /\ HasDue(items[j]) => HasDue(items[i])
                /\ (HasDue(items[i]) /\ HasDue(items[j])) =>
                      DueOrdinal(items[i].due) <= DueOrdinal(items[j].due)
                /\ (\/ ~HasDue(items[i]) /\ ~HasDue(items[j])
                    \/ /\ HasDue(items[i]) /\ HasDue(items[j])
                       /\ DueOrdinal(items[i].due) = DueOrdinal(items[j].due)) =>
                      items[i].file < items[j].file

\* the listing [none, 2026-02-20, none, 2026-02-10] was collected as
\* [2026-02-10, 2026-02-20, none, none]
C10_Witness ==
    /\ currentSort # "none"
    /\ Len(vault) = 4
    /\ SelectedFiles = 1..4
    /\ [f \in 1..4 |-> vault[f].due]
          = <<NullDue, DateDue(RefDay + 8), NullDue, DateDue(RefDay - 2)>>
    /\ [k \in 1..Len(items) |-> items[k].file] = <<4, 2, 1, 3>>

\* the section headers of the items area, in document order
SectionHeaders == SelectSeq(dom, LAMBDA node : node.kind = "header")

\* the buckets that hold a collected item, in the order of the claim
BucketOrder == <<"overdue", "today", "tomorrow", "week", "later", "none">>
BucketLabel(b) ==
    CASE b = "overdue" -> "Overdue" [] b = "today" -> "Due Today"
      [] b = "tomorrow" -> "Due Tomorrow" [] b = "week" -> "This Week"
      [] b = "later" -> "Later" [] b = "none" -> "No Due Date"
NonEmptyBuckets ==
    SelectSeq(BucketOrder, LAMBDA b : \E k \in 1..Len(items) : items[k].urgency = b)

\* the header the node at position n of the items area stands under
HeaderAbove(n) ==
    LET hs == {h \in 1..(n - 1) : dom[h].kind = "header"}
    IN  IF hs = {} THEN "" ELSE dom[CHOOSE h \in hs : \A g \in hs : g <= h].text

RowsOf(f) == {n \in 1..Len(dom) : dom[n].kind = "row" /\ dom[n].file = f}

\* C11: in date mode the sections are those of the non-empty buckets, once
\* each and in the order overdue, today, tomorrow, week, later, none, and
\* every collected item has exactly one row, in the section of its bucket
C11_DateModeSections ==
    (currentSort = "date" /\ Len(items) > 0) =>
        /\ [k \in 1..Len(SectionHeaders) |-> SectionHeaders[k].text]
              = [k \in 1..Len(NonEmptyBuckets) |-> BucketLabel(NonEmptyBuckets[k])]
        /\ \A k \in 1..Len(items) :
              /\ Cardinality(RowsOf(items[k].file)) = 1
              /\ \A n \in RowsOf(items[k].file) :
                    HeaderAbove(n) = BucketLabel(items[k].urgency)
        /\ \A n \in 1..Len(dom) :
              dom[n].kind = "row" => \E k \in 1..Len(items) : items[k].file = dom[n].file

\* four items in four buckets, the one without due date among them, are
\* rendered as four sections
C11_Witness ==
    /\ currentSort = "date"
    /\ Len(items) = 4
    /\ Len(SectionHeaders) = 4
    /\ SectionHeaders[4].text = "No Due Date"
    /\ \E k \in 1..4 : items[k].urgency = "tomorrow"

\* the marker segment of a path: the first segment Todo that "/Todo/" matches
MarkerOf(path) ==
    CHOOSE i \in TodoPositions(path) : \A j \in TodoPositions(path) : i <= j

\* C20: the subject of every collected item is the segment of its file's
\* path right before the marker segment Todo, and it is "Unknown" only if
\* the path has no marker segment
C20_SubjectBeforeMarker ==
    \A k \in 1..Len(items) :
        LET path == vault[items[k].file].path
        IN  /\ TodoPositions(path) # {} => items[k].subject = path[MarkerOf(path) - 1]
            /\ items[k].subject = "Unknown" => TodoPositions(path) = {}

(***************************************************************************)
(* Claims about fetchAssignments.                                          *)
(***************************************************************************)
\* the parts of the Link header of a response
LinkParts(response) == response.headers.link \o response.headers.Link

CarriesNext(response) ==
    \E k \in 1..Len(LinkParts(response)) : LinkParts(response)[k].rel = "next"

NextOf(response) ==
    LinkParts(response)[CHOOSE k \in 1..Len(LinkParts(response)) :
                            LinkParts(response)[k].rel = "next"].url

\* the pages of the course are a chain: all are served, each but the last
\* links to its successor and the last has no next link
IsChain(courseId) ==
    LET pages == server[courseId]
    IN  /\ Len(pages) >= 1
        /\ \A i \in 1..Len(pages) :
              /\ pages[i].status = 200
              /\ IF i < Len(pages)
                 THEN CarriesNext(pages[i]) /\ NextOf(pages[i]) = Url(courseId, i + 1)
                 ELSE ~CarriesNext(pages[i])

RECURSIVE ItemsOfRequests(_, _)
ItemsOfRequests(requests, n) ==
    IF n = 0 THEN <<>>
    ELSE ItemsOfRequests(requests, n - 1) \o Response(requests[n]).items

\* what C12 says of every state of a call
FetchFollowsLinks(f) ==
    f.pc # "idle" =>
        /\ f.requests[1] = FirstUrl(f.courseId)
        /\ \A j \in 2..Len(f.requests) :
              /\ Response(f.requests[j - 1]).status = 200
              /\ CarriesNext(Response(f.requests[j - 1]))
              /\ f.requests[j] = NextOf(Response(f.requests[j - 1]))
        /\ f.pc = "returned" =>
              /\ ~CarriesNext(Response(f.requests[Len(f.requests)]))
              /\ f.allAssignments = ItemsOfRequests(f.requests, Len(f.requests))
        /\ IsChain(f.courseId) =>
              /\ Len(f.requests) <= Len(server[f.courseId])
              /\ f.pc # "thrown"
              /\ f.pc = "returned" => Len(f.requests) = Len(server[f.courseId])

\* C12: fetchAssignments requests the first page and then the next link of
\* each response, and no more after a response without one; on a chain of k
\* pages it ends, having made k requests and returning the items of all
\* pages in page order
C12_FetchFollowsChain ==
    /\ [](\A r \in Runs : FetchFollowsLinks(fetch[r]))
    /\ \A r \in Runs :
          (fetch[r].pc = "waiting" /\ IsChain(fetch[r].courseId))
              ~> (/\ fetch[r].pc = "returned"
                  /\ Len(fetch[r].requests) = Len(server[fetch[r].courseId])
                  /\ fetch[r].allAssignments
                        = ItemsOfRequests([i \in 1..Len(server[fetch[r].courseId]) |->
                                               Url(fetch[r].courseId, i)],
                                          Len(server[fetch[r].courseId])))

\* a chain of three pages, the first linked by a Canvas Link header, the
\* second by a "link" header, has been fetched with three requests
C12_Witness ==
    /\ fetch[1].pc = "returned"
    /\ IsChain("101")
    /\ Len(server["101"]) = 3
    /\ server["101"][1].headers.Link # <<>>
    /\ server["101"][2].headers.link # <<>>
    /\ Len(fetch[1].requests) = 3
    /\ Len(fetch[1].allAssignments) = 9

(***************************************************************************)
(* Claims about syncAssignments.                                           *)
(***************************************************************************)
\* the requests for the assignments of the course end in a refused or
\* rejected request
TransportFails(c) ==
    \E i \in 1..Len(server[c]) :
        /\ server[c][i].status # 200
        /\ \A j \in 1..(i - 1) :
              /\ server[c][j].status = 200
              /\ CarriesNext(server[c][j])
              /\ NextOf(server[c][j]) = Url(c, j + 1)

\* the assignments the server has for a course whose requests all succeed
RECURSIVE AllItems(_, _)
AllItems(c, n) == IF n = 0 THEN <<>> ELSE AllItems(c, n - 1) \o server[c][n].items

\* a note of the vault carries the id as its canvas-id
Carries(f, id) == vault[f].canvasId.type # "null" /\ vault[f].canvasId.n = id

\* the mappings with a subject, in the order of the settings
ActiveMappings == SelectSeq(settings.courseMappings, LAMBDA m : m.mapping.subject # "")

ConfigComplete ==
    settings.canvasBaseUrl # "" /\ settings.apiToken # "" /\ ActiveMappings # <<>>

CreateFailedAt(s, j) ==
    \E e \in 1..Len(s.errors) : s.errors[e].idx = j /\ s.errors[e].cause = "create"

\* C13: when a sync with complete settings has ended, every active course
\* was fetched, in order; each course whose requests fail has an error
\* notice with its subject; each course whose requests succeed and whose
\* notes could be written has a note for every published assignment; and
\* the last notice, and only the last, is the Sync complete notice
C13_TransportFailureIsolated ==
    \A r \in Runs :
        (sync[r].pc = "done" /\ ConfigComplete) =>
            LET s == sync[r]
            IN  /\ s.fetched = [j \in 1..Len(ActiveMappings) |-> ActiveMappings[j].courseId]
                /\ \A j \in 1..Len(ActiveMappings) :
                      LET c == ActiveMappings[j].courseId
                          subject == ActiveMappings[j].mapping.subject
                      IN  /\ TransportFails(c) =>
                                \E n \in 1..Len(s.notices) :
                                    s.notices[n].kind = "error" /\ s.notices[n].subject = subject
                          /\ (IsChain(c) /\ ~CreateFailedAt(s, j)) =>
                                \A i \in 1..Len(AllItems(c, Len(server[c]))) :
                                    AllItems(c, Len(server[c]))[i].published =>
                                        \E f \in 1..Len(vault) :
                                            Carries(f, AllItems(c, Len(server[c]))[i].id)
                /\ s.notices[Len(s.notices)].kind = "complete"
                /\ \A n \in 1..(Len(s.notices) - 1) : s.notices[n].kind # "complete"

\* the requests of the first course were refused, the error was shown for
\* History, and the second course got its note
C13_Witness ==
    /\ sync[1].pc = "done"
    /\ Len(ActiveMappings) = 2
    /\ TransportFails("101") /\ IsChain("102")
    /\ \E n \in 1..Len(sync[1].notices) :
          sync[1].notices[n] = Notified("error", "History", 0)
    /\ \E f \in 1..Len(vault) : Carries(f, 15) /\ vault[f].path[3] = "Math"
    /\ sync[1].notices[Len(sync[1].notices)] = Notified("complete", "", 1)

\* the notes the vault had before the run wrote its own
NotesBefore(s) == 1..(Len(vault) - Len(s.created))

\* the note is under the Todo, Working or Done folder of the subject
UnderStatusFolder(f, subject) ==
    /\ Len(vault[f].path) >= Len(semesterBasePath) + 3
    /\ SubSeq(vault[f].path, 1, Len(semesterBasePath)) = semesterBasePath
    /\ vault[f].path[Len(semesterBasePath) + 1] = subject
    /\ vault[f].path[Len(semesterBasePath) + 2] \in {"Todo", "Working", "Done"}

\* C14: a sync that has ended without a failed request or write has written
\* a note for a fetched assignment exactly if the assignment is published
\* and no note under the Todo, Working or Done folder of the subject carried
\* its id before; with or without failures the notes it wrote are in the
\* vault, one for each, and the Sync complete notice counts them
C14_CreatesExactlyNewPublished ==
    \A r \in Runs :
        (sync[r].pc = "done" /\ ConfigComplete) =>
            LET s == sync[r]
            IN  /\ s.errors = <<>> => \A j \in 1..Len(ActiveMappings) :
                      LET c == ActiveMappings[j].courseId
                          subject == ActiveMappings[j].mapping.subject
                          fetched == AllItems(c, Len(server[c]))
                      IN  \A i \in 1..Len(fetched) :
                              (\E n \in 1..Len(s.created) : s.created[n] = fetched[i].id)
                                  <=> /\ fetched[i].published
                                      /\ ~\E f \in NotesBefore(s) :
                                            /\ UnderStatusFolder(f, subject)
                                            /\ Carries(f, fetched[i].id)
                /\ \A n \in 1..Len(s.created) :
                      /\ Carries(Len(vault) - Len(s.created) + n, s.created[n])
                      /\ \A m \in 1..Len(s.created) : s.created[m] = s.created[n] => m = n
                /\ \A f, g \in 1..Len(vault) : vault[f].path = vault[g].path => f = g
                /\ s.notices[Len(s.notices)] = Notified("complete", "", Len(s.created))

\* of the assignments 11 (a note named Essay exists, not from Canvas), 12 (not
\* published) and 13 (a note in Working carries it, written as a number)
\* exactly 11 got a note, under a name with its id
C14_Witness ==
    /\ sync[1].pc = "done"
    /\ sync[1].errors = <<>>
    /\ Len(ActiveMappings) = 1
    /\ Len(server["101"]) = 1
    /\ \E f \in NotesBefore(sync[1]) : Carries(f, 13) /\ vault[f].canvasId.type = "number"
    /\ sync[1].created = <<11>>
    /\ vault[Len(vault)].basename = "Essay (11)"
    /\ sync[1].notices[Len(sync[1].notices)] = Notified("complete", "", 1)

\* the notice the settings call for before any request
ExpectedConfigNotice ==
    IF settings.canvasBaseUrl = "" \/ settings.apiToken = "" THEN "config-missing"
    ELSE "no-mappings"

\* C15: with an empty base URL or token, or without a mapping that has a
\* subject, no step issues a request or changes the folders or the notes,
\* and the call of syncAssignments ends at once with the one notice that
\* names what is missing
C15_ConfigErrorAbortsEarly ==
    [][ ~ConfigComplete =>
          /\ vault' = vault
          /\ folders' = folders
          /\ \A r \in Runs :
                /\ fetch'[r] = IdleFetch
                /\ sync'[r] # sync[r] =>
                      /\ sync'[r].pc = "done"
                      /\ sync'[r].notices = <<Notified(ExpectedConfigNotice, "", 0)>>
                      /\ sync'[r].fetched = <<>>
                      /\ sync'[r].created = <<>> ]_vars

\* a sync with URL and token but only mappings without subject has ended
\* with the notice about the mappings; one without token with the other
C15_Witness ==
    /\ sync[1].pc = "done"
    /\ settings.canvasBaseUrl # ""
    /\ settings.apiToken # ""
    /\ Len(settings.courseMappings) = 2
    /\ sync[1].notices = <<Notified("no-mappings", "", 0)>>
    /\ fetch[1] = IdleFetch

\* the write of the note of the assignment failed in the run
CreateFailedFor(s, id) ==
    \E e \in 1..Len(s.errors) : s.errors[e].cause = "create" /\ s.errors[e].id = id

\* C22: when a sync has ended, a failed write of a note has an error notice,
\* and every other published assignment of every course whose requests
\* succeed has a note, those of the course of the failed write included
C22_NoteFailureIsolated ==
    \A r \in Runs :
        (sync[r].pc = "done" /\ ConfigComplete) =>
            LET s == sync[r]
            IN  \A j \in 1..Len(ActiveMappings) :
                    LET c == ActiveMappings[j].courseId
                        fetched == AllItems(c, Len(server[c]))
                    IN  /\ CreateFailedAt(s, j) =>
                              \E n \in 1..Len(s.notices) :
                                  /\ s.notices[n].kind = "error"
                                  /\ s.notices[n].subject = ActiveMappings[j].mapping.subject
                        /\ IsChain(c) =>
                              \A i \in 1..Len(fetched) :
                                  (fetched[i].published /\ ~CreateFailedFor(s, fetched[i].id)) =>
                                      \E f \in 1..Len(vault) : Carries(f, fetched[i].id)

\* a page of the course that its requests reach answers with a status
\* other than 200
StatusFailureOf(c) ==
    \E i \in 1..Len(server[c]) :
        /\ server[c][i].status \notin {0, 200}
        /\ \A j \in 1..(i - 1) :
              /\ server[c][j].status = 200
              /\ CarriesNext(server[c][j])
              /\ NextOf(server[c][j]) = Url(c, j + 1)

\* the ids of the assignments on the pages of a course
IdsOf(c) ==
    UNION { {server[c][i].items[n].id : n \in 1..Len(server[c][i].items)} :
              i \in 1..Len(server[c]) }

\* C23: a course one of whose page requests is answered with a status other
\* than 200 gets no note in the run, not for the assignments of the pages
\* before that page either: the run writes and counts no note with an id of
\* the course, and once it has left the course it has recorded the failed
\* fetch and shown the error notice of the course
C23_FailedPageNoNotes ==
    \A r \in Runs :
        \A j \in 1..Len(sync[r].activeMappings) :
            LET s == sync[r]
                c == s.activeMappings[j].courseId
            IN  StatusFailureOf(c) =>
                    /\ \A n \in 1..Len(s.created) : s.created[n] \notin IdsOf(c)
                    /\ \A f \in 1..Len(vault) :
                           f \notin NotesBefore(s) => \A id \in IdsOf(c) : ~Carries(f, id)
                    /\ s.idx > j =>
                           /\ \E e \in 1..Len(s.errors) :
                                  s.errors[e] = [idx |-> j, cause |-> "fetch", id |-> 0]
                           /\ \E n \in 1..Len(s.notices) :
                                  s.notices[n] = Notified("error", s.activeMappings[j].mapping.subject, 0)
                    /\ (s.idx = j /\ s.pc = "fetching") => fetch[r].pc = "waiting"
                    /\ (s.idx = j) => s.pc = "fetching"

\* the first page of the only course was fetched, its second page was
\* refused: the call has thrown after two requests and the run has ended
\* without a note for the published assignments of the first page
C23_Witness ==
    /\ sync[1].pc = "done"
    /\ Len(sync[1].activeMappings) = 1
    /\ StatusFailureOf("101")
    /\ server["101"][1].status = 200
    /\ server["101"][1].items[1].published
    /\ fetch[1].pc = "thrown"
    /\ fetch[1].error = "status"
    /\ Len(fetch[1].requests) = 2
    /\ vault = <<>>
    /\ sync[1].notices = <<Notified("syncing", "", 0), Notified("error", "History", 0),
                           Notified("complete", "", 0)>>

\* the subject folder of a note: the path component after the base path
SubjectFolder(file) == file.path[Len(semesterBasePath) + 1]

\* C27: whatever the interleaving of two runs of syncAssignments, no two
\* notes under the same subject carry the same canvas-id
C27_NoDuplicateNotes ==
    \A i, j \in 1..Len(vault) :
        /\ vault[i].canvasId # NoCanvasId
        /\ String(vault[i].canvasId.n) = String(vault[j].canvasId.n)
        /\ vault[j].canvasId # NoCanvasId
        /\ SubjectFolder(vault[i]) = SubjectFolder(vault[j])
        => i = j

\* the place of a bucket in the order of the sections
BucketIndex(b) == CHOOSE i \in 1..Len(BucketOrder) : BucketOrder[i] = b

\* C29: the buckets are monotone in the due date: a due date that the sort
\* of the list puts before or beside another one has a bucket that is not
\* later, at every clock and in every zone, so the sections of the date
\* mode, one after the other, are the sorted list
C29_BucketsMonotone ==
    (uResult # "pending" /\ HasCalendarDate(uDue)) =>
        \A other \in DueValues :
            (HasCalendarDate(other) /\ DueLocaleCompare(uDue, other) <= 0) =>
                BucketIndex(uResult) <= BucketIndex(getUrgency(other))

\* C30: for one item at most one call of completeItem is in flight: a
\* click on the checkbox of an item whose call is suspended at an I/O step
\* starts no second read, modify and move of the same file
C30_OneCompletionInFlight ==
    \A b, c \in Slots :
        (InFlight(b) /\ InFlight(c) /\ calls[b].file = calls[c].file) => b = c

====
